---------------------------- MODULE Spec2Model ----------------------------
(***************************************************************************)
(* Model of the Watchdog singleton (Watchdog.h / Watchdog.cpp): a          *)
(* mutex-guarded table of task entries in front of the ESP-IDF task        *)
(* watchdog timer (TWDT).                                                  *)
(*                                                                         *)
(* Every public method is split into steps at the points where it touches *)
(* shared state: the atomic flag initialized_, the unprotected fields      *)
(* timeoutMs_ and panicOnTimeout_, the mutex, the task list, the TWDT and  *)
(* the tick counter.  pc[t] is the position of task t inside its current   *)
(* call, frame[t] its arguments and locals, ret[t] what the call returned. *)
(*                                                                         *)
(* uint32_t and TickType_t values are kept exactly: a value is a pair      *)
(* <<hi, lo>> of 16-bit limbs, and the arithmetic wraps modulo 2^32.       *)
(***************************************************************************)
EXTENDS Integers, Sequences, FiniteSets

(***************************************************************************)
(* Bounds of the model.                                                    *)
(***************************************************************************)
\* the clock stops advancing at this tick
MaxTick == 3
\* no new health scan starts once some entry has this many missed feeds
MaxMissed == 3

(***************************************************************************)
(* 32-bit unsigned arithmetic on pairs of 16-bit limbs.                    *)
(***************************************************************************)
Limb == 2^16

U32(n) == << (n \div Limb) % Limb, n % Limb >>

U32Inc(a) ==
    IF a[2] + 1 < Limb THEN << a[1], a[2] + 1 >>
    ELSE << (a[1] + 1) % Limb, 0 >>

U32Sub(a, b) ==
    LET lo == a[2] - b[2]
        borrow == IF lo < 0 THEN 1 ELSE 0
        hi == a[1] - b[1] - borrow
    IN << (hi + Limb) % Limb, (lo + Limb) % Limb >>

\* a * k modulo 2^32, for a small multiplier k
U32Mul(a, k) ==
    LET lo == a[2] * k
        hi == a[1] * k + (lo \div Limb)
    IN << hi % Limb, lo % Limb >>

U32Gt(a, b) == a[1] > b[1] \/ (a[1] = b[1] /\ a[2] > b[2])

U32Max == << Limb - 1, Limb - 1 >>

\* the value of a uint32_t below 2^31
NatOf(a) == a[1] * Limb + a[2]

(***************************************************************************)
(* Program constants.                                                      *)
(***************************************************************************)
DEFAULT_TIMEOUT_MS == 30000
MAX_TIMEOUT_SECONDS == 3600
MAX_TASK_NAME_LEN == 16
portTICK_PERIOD_MS == 1

ESP_OK == "ESP_OK"
ESP_ERR_NO_MEM == "ESP_ERR_NO_MEM"
ESP_ERR_INVALID_ARG == "ESP_ERR_INVALID_ARG"
ESP_ERR_INVALID_STATE == "ESP_ERR_INVALID_STATE"
ESP_ERR_NOT_FOUND == "ESP_ERR_NOT_FOUND"

(***************************************************************************)
(* The tasks of the system; a task handle is the task itself, NoTask is    *)
(* the null handle and the free mutex.                                     *)
(***************************************************************************)
Tasks == {1, 2}
NoTask == 0

VARIABLES
    initialized_,       \* std::atomic<bool>
    timeoutMs_,         \* uint32_t, milliseconds
    panicOnTimeout_,    \* bool
    registeredTasks_,   \* std::vector<TaskInfo>
    taskListMutex_,     \* the task holding the mutex, or NoTask
    twdt,               \* the ESP-IDF task watchdog timer
    tickCount,          \* xTaskGetTickCount()
    pc,                 \* pc[t]: where task t is inside its current call
    frame,              \* frame[t]: arguments and locals of the current call
    ret,                \* ret[t]: result of the call that has just returned
    calls               \* calls[t]: TWDT calls made by the current call

vars == << initialized_, timeoutMs_, panicOnTimeout_, registeredTasks_,
           taskListMutex_, twdt, tickCount, pc, frame, ret, calls >>

registry == << initialized_, timeoutMs_, panicOnTimeout_, registeredTasks_ >>

NoFrame == [op |-> "none"]
NoRet == [op |-> "none"]


(***************************************************************************)
(* The ESP-IDF task watchdog timer, as the library uses it.  It is one     *)
(* global resource: it may have been initialised, and tasks subscribed to  *)
(* it, by another component before the library runs.  Each operator gives  *)
(* the error code and the TWDT after the call.                             *)
(***************************************************************************)
TwdtOff == [inited |-> FALSE, timeout_ms |-> 0, trigger_panic |-> FALSE, tasks |-> {}]

\* esp_task_wdt_init(&wdtConfig); noMem: the allocation inside it fails
esp_task_wdt_init(w, timeout_ms, trigger_panic, noMem) ==
    IF w.inited THEN [err |-> ESP_ERR_INVALID_STATE, twdt |-> w]
    ELSE IF noMem THEN [err |-> ESP_ERR_NO_MEM, twdt |-> w]
    ELSE [err |-> ESP_OK,
          twdt |-> [inited |-> TRUE, timeout_ms |-> timeout_ms,
                    trigger_panic |-> trigger_panic, tasks |-> {}]]

\* esp_task_wdt_status(handle)
esp_task_wdt_status(w, h) ==
    IF ~w.inited THEN ESP_ERR_INVALID_STATE
    ELSE IF h \in w.tasks THEN ESP_OK
    ELSE ESP_ERR_NOT_FOUND

\* esp_task_wdt_add(handle)
esp_task_wdt_add(w, h, noMem) ==
    IF ~w.inited THEN [err |-> ESP_ERR_INVALID_STATE, twdt |-> w]
    ELSE IF h \in w.tasks THEN [err |-> ESP_ERR_INVALID_ARG, twdt |-> w]
    ELSE IF noMem THEN [err |-> ESP_ERR_NO_MEM, twdt |-> w]
    ELSE [err |-> ESP_OK, twdt |-> [w EXCEPT !.tasks = @ \cup {h}]]

\* esp_task_wdt_delete(handle)
esp_task_wdt_delete(w, h) ==
    IF ~w.inited THEN [err |-> ESP_ERR_INVALID_STATE, twdt |-> w]
    ELSE IF h \notin w.tasks THEN [err |-> ESP_ERR_NOT_FOUND, twdt |-> w]
    ELSE [err |-> ESP_OK, twdt |-> [w EXCEPT !.tasks = @ \ {h}]]

\* esp_task_wdt_reset(), called by task h; the TWDT keeps no state the
\* library can read back, so only the error code is modelled
esp_task_wdt_reset(w, h) ==
    IF ~w.inited THEN ESP_ERR_INVALID_STATE
    ELSE IF h \in w.tasks THEN ESP_OK
    ELSE ESP_ERR_NOT_FOUND

\* esp_task_wdt_deinit(): the TWDT can be taken down while no task is
\* subscribed to it
esp_task_wdt_deinit(w) ==
    IF ~w.inited \/ w.tasks # {} THEN [err |-> ESP_ERR_INVALID_STATE, twdt |-> w]
    ELSE [err |-> ESP_OK, twdt |-> TwdtOff]

\* one entry of the log of TWDT calls a library call has made
WdtCall(fn, h, err) == [fn |-> fn, handle |-> h, err |-> err]

(***************************************************************************)
(* Task names: C strings, modelled as the sequence of characters before    *)
(* the terminating NUL.                                                    *)
(***************************************************************************)
Min(a, b) == IF a < b THEN a ELSE b

\* strncpy(dst, src, n) into a zeroed buffer of MAX_TASK_NAME_LEN bytes
Strncpy(src, n) == SubSeq(src, 1, Min(Len(src), n))

\* strncmp(a, b, n) == 0
StrncmpEq(a, b, n) ==
    SubSeq(a, 1, Min(Len(a), n)) = SubSeq(b, 1, Min(Len(b), n))

(***************************************************************************)
(* TaskInfo and the pure parts of the methods.                             *)
(***************************************************************************)
\* findTaskByHandle that never finds an entry
findTaskByHandle_NeverFinds(tasks, h) == 0

\* findTaskByHandle: the index of the first entry with this handle, or 0
findTaskByHandle(tasks, h) ==
    IF \E i \in 1..Len(tasks) : tasks[i].handle = h
    THEN CHOOSE i \in 1..Len(tasks) :
            /\ tasks[i].handle = h
            /\ \A j \in 1..(i - 1) : tasks[j].handle # h
    ELSE 0

\* TimeoutValid with the test for zero left out
TimeoutValid_AcceptsZero(timeoutSeconds) == ~(timeoutSeconds > MAX_TIMEOUT_SECONDS)

\* init: the range check on timeoutSeconds
TimeoutValid(timeoutSeconds) ==
    ~(timeoutSeconds = 0 \/ timeoutSeconds > MAX_TIMEOUT_SECONDS)

\* InitOutcome with ESP_ERR_INVALID_STATE treated like any other error
InitOutcome_OnlyOk(err) ==
    IF err = ESP_OK THEN [set |-> TRUE, val |-> TRUE, msg |-> "initialized"]
    ELSE [set |-> FALSE, val |-> FALSE, msg |-> "failed to initialize"]

\* init: what the error code of initWatchdogESPIDF() does to initialized_
\* and to the return value
InitOutcome(err) ==
    IF err = ESP_OK THEN [set |-> TRUE, val |-> TRUE, msg |-> "initialized"]
    ELSE IF err = ESP_ERR_INVALID_STATE
         THEN [set |-> TRUE, val |-> TRUE, msg |-> "already initialized by another component"]
         ELSE [set |-> FALSE, val |-> FALSE, msg |-> "failed to initialize"]

\* StoredInterval that stores the interval as it was passed
StoredInterval_KeepsZero(feedIntervalMs, timeoutMs) == feedIntervalMs

\* registerCurrentTask: the interval stored for the new entry
StoredInterval(feedIntervalMs, timeoutMs) ==
    IF U32Gt(feedIntervalMs, U32(0)) THEN feedIntervalMs ELSE U32(timeoutMs \div 5)

\* NewTaskInfo that leaves lastFeedTime as the constructor of TaskInfo set it
NewTaskInfo_ZeroTime(h, taskName, now, feedIntervalMs, isCritical, timeoutMs) ==
    [handle |-> h,
     name |-> Strncpy(taskName, MAX_TASK_NAME_LEN - 1),
     lastFeedTime |-> U32(0),
     feedIntervalMs |-> StoredInterval(feedIntervalMs, timeoutMs),
     missedFeeds |-> U32(0),
     isCritical |-> isCritical]

\* registerCurrentTask: the TaskInfo pushed onto the list
NewTaskInfo(h, taskName, now, feedIntervalMs, isCritical, timeoutMs) ==
    [handle |-> h,
     name |-> Strncpy(taskName, MAX_TASK_NAME_LEN - 1),
     lastFeedTime |-> now,
     feedIntervalMs |-> StoredInterval(feedIntervalMs, timeoutMs),
     missedFeeds |-> U32(0),
     isCritical |-> isCritical]

\* unregisterTaskByHandle: remove_if + erase
RemoveHandle(tasks, h) == SelectSeq(tasks, LAMBDA e : e.handle # h)

\* FedEntry that resets the counter and leaves the time stamp
FedEntry_KeepsTime(e, now) == [e EXCEPT !.missedFeeds = U32(0)]

\* FedEntry that stamps the entry with tick 0
FedEntry_StampsZero(e, now) == [e EXCEPT !.lastFeedTime = U32(0), !.missedFeeds = U32(0)]

\* feed: what the locked section does to the caller's entry
FedEntry(e, now) == [e EXCEPT !.lastFeedTime = now, !.missedFeeds = U32(0)]

\* FeedList that registers a caller it does not find
FeedList_AutoRegisters(tasks, h, now) ==
    IF findTaskByHandle(tasks, h) = 0
    THEN Append(tasks, NewTaskInfo(h, << >>, now, U32(0), FALSE, DEFAULT_TIMEOUT_MS))
    ELSE [tasks EXCEPT ![findTaskByHandle(tasks, h)] = FedEntry(@, now)]

\* FeedList that stamps every entry of the list
FeedList_FeedsAll(tasks, h, now) ==
    IF findTaskByHandle(tasks, h) = 0 THEN tasks
    ELSE [i \in 1..Len(tasks) |-> FedEntry(tasks[i], now)]

\* feed: the list after the locked section
FeedList(tasks, h, now) ==
    IF findTaskByHandle(tasks, h) = 0 THEN tasks
    ELSE [tasks EXCEPT ![findTaskByHandle(tasks, h)] = FedEntry(@, now)]

\* IsUnhealthy with >= for >
IsUnhealthy_AtLeast(e, now) ==
    ~U32Gt(U32Mul(e.feedIntervalMs, 2),
           U32Mul(U32Sub(now, e.lastFeedTime), portTICK_PERIOD_MS))

\* IsUnhealthy that only looks at critical tasks
IsUnhealthy_CriticalOnly(e, now) ==
    /\ e.isCritical
    /\ U32Gt(U32Mul(U32Sub(now, e.lastFeedTime), portTICK_PERIOD_MS),
             U32Mul(e.feedIntervalMs, 2))

\* IsUnhealthy without the factor 2: one interval without a feed is enough
IsUnhealthy_OneInterval(e, now) ==
    U32Gt(U32Mul(U32Sub(now, e.lastFeedTime), portTICK_PERIOD_MS),
          e.feedIntervalMs)

\* checkHealth: timeSinceLastFeedMs > task.feedIntervalMs * 2
IsUnhealthy(e, now) ==
    U32Gt(U32Mul(U32Sub(now, e.lastFeedTime), portTICK_PERIOD_MS),
          U32Mul(e.feedIntervalMs, 2))

\* MissedInc that sets the counter instead of incrementing it
MissedInc_SetsOne(m) == U32(1)

\* checkHealth: task.missedFeeds++
MissedInc(m) == U32Inc(m)

\* checkHealth: the body of the loop, for one entry
ScanEntry(e, now) ==
    IF IsUnhealthy(e, now) THEN [e EXCEPT !.missedFeeds = MissedInc(@)] ELSE e

\* checkHealth: the list after the loop
ScanList(tasks, now) ==
    IF tasks = << >> THEN << >>
    ELSE [i \in 1..Len(tasks) |-> ScanEntry(tasks[i], now)]

\* checkHealth: unhealthyCount after the loop
UnhealthyCount(tasks, now) ==
    Cardinality({i \in 1..Len(tasks) : IsUnhealthy(tasks[i], now)})

\* getTaskInfo: the index of the first entry whose name matches, or 0
findTaskByName(tasks, taskName) ==
    IF \E i \in 1..Len(tasks) : StrncmpEq(tasks[i].name, taskName, MAX_TASK_NAME_LEN)
    THEN CHOOSE i \in 1..Len(tasks) :
            /\ StrncmpEq(tasks[i].name, taskName, MAX_TASK_NAME_LEN)
            /\ \A j \in 1..(i - 1) :
                  ~StrncmpEq(tasks[j].name, taskName, MAX_TASK_NAME_LEN)
    ELSE 0

(***************************************************************************)
(* The arguments the callers pass.                                         *)
(***************************************************************************)
\* a null const char*: a value no task name equals
NullPtr == << "nullptr" >>
NameA == << "A" >>
NameB == << "B" >>

\* init(timeoutSeconds, panicOnTimeout)
InitArgs == { << 0, TRUE >>, << 1, FALSE >>, << 2, TRUE >>,
              << MAX_TIMEOUT_SECONDS + 1, FALSE >> }

\* registerCurrentTask(taskName, isCritical, feedIntervalMs)
RegisterArgs == { << NameA, TRUE, U32(1) >>, << NameB, FALSE, U32(0) >> }

\* unregisterTaskByHandle(taskHandle, taskName)
UnregisterArgs == ((Tasks \cup {NoTask}) \X {NullPtr}) \cup {<< 1, NameA >>}

\* getTaskInfo(taskName, info)
InfoArgs == { NullPtr, NameA, NameB }

(***************************************************************************)
(* Bookkeeping shared by the steps.                                        *)
(***************************************************************************)
\* task t moves to label l with frame f
Goto(t, l, f) ==
    /\ pc' = [pc EXCEPT ![t] = l]
    /\ frame' = [frame EXCEPT ![t] = f]
    /\ ret' = [ret EXCEPT ![t] = NoRet]

\* the call of task t, with frame f, returns val; msg is the last diagnostic
\* it logged
Done(t, f, val, msg) ==
    /\ pc' = [pc EXCEPT ![t] = "done"]
    /\ frame' = [frame EXCEPT ![t] = f]
    /\ ret' = [ret EXCEPT ![t] = [op |-> f.op, val |-> val, msg |-> msg]]

\* the current call of task t makes the TWDT call c
Logged(t, c) == calls' = [calls EXCEPT ![t] = Append(@, c)]

\* xSemaphoreTake succeeds
Take(t) ==
    /\ taskListMutex_ = NoTask
    /\ taskListMutex_' = t

\* TakeTimesOut for a wait with portMAX_DELAY: the wait never gives up
TakeTimesOut_Never(t) ==
    /\ FALSE
    /\ UNCHANGED taskListMutex_

\* xSemaphoreTake(..., pdMS_TO_TICKS(10)) gives up: another task holds the
\* mutex for the whole wait
TakeTimesOut(t) ==
    /\ taskListMutex_ \notin {NoTask, t}
    /\ UNCHANGED taskListMutex_

\* xSemaphoreGive
Give(t) ==
    /\ taskListMutex_ = t
    /\ taskListMutex_' = NoTask

(***************************************************************************)
(* bool Watchdog::init(uint32_t timeoutSeconds, bool panicOnTimeout)       *)
(***************************************************************************)
\* init without the check of initialized_
init_Unchecked(t) ==
    /\ pc[t] = "idle"
    /\ \E a \in InitArgs :
          LET f == [op |-> "init", timeoutSeconds |-> a[1], panicOnTimeout |-> a[2]]
          IN IF ~TimeoutValid(a[1])
             THEN Done(t, f, FALSE, "invalid timeout")
             ELSE Goto(t, "init_timeout", f)
    /\ UNCHANGED << registry, taskListMutex_, twdt, tickCount, calls >>

\* lines 10-18: the check of initialized_ and of the range
init(t) ==
    /\ pc[t] = "idle"
    /\ \E a \in InitArgs :
          LET f == [op |-> "init", timeoutSeconds |-> a[1], panicOnTimeout |-> a[2]]
          IN IF initialized_
             THEN Done(t, f, TRUE, "already initialized")
             ELSE IF ~TimeoutValid(a[1])
                  THEN Done(t, f, FALSE, "invalid timeout")
                  ELSE Goto(t, "init_timeout", f)
    /\ UNCHANGED << registry, taskListMutex_, twdt, tickCount, calls >>

\* init_timeout that keeps the old timeout when the TWDT is already armed
init_timeout_KeepsOld(t) ==
    /\ pc[t] = "init_timeout"
    /\ timeoutMs_' = (IF twdt.inited THEN timeoutMs_ ELSE frame[t].timeoutSeconds * 1000)
    /\ Goto(t, "init_panic", frame[t])
    /\ UNCHANGED << initialized_, panicOnTimeout_, registeredTasks_,
                    taskListMutex_, twdt, tickCount, calls >>

\* line 20
init_timeout(t) ==
    /\ pc[t] = "init_timeout"
    /\ timeoutMs_' = frame[t].timeoutSeconds * 1000
    /\ Goto(t, "init_panic", frame[t])
    /\ UNCHANGED << initialized_, panicOnTimeout_, registeredTasks_,
                    taskListMutex_, twdt, tickCount, calls >>

\* line 21
init_panic(t) ==
    /\ pc[t] = "init_panic"
    /\ panicOnTimeout_' = frame[t].panicOnTimeout
    /\ Goto(t, "init_wdt", frame[t])
    /\ UNCHANGED << initialized_, timeoutMs_, registeredTasks_,
                    taskListMutex_, twdt, tickCount, calls >>

\* line 23 and initWatchdogESPIDF, lines 262-279
init_wdt(t) ==
    /\ pc[t] = "init_wdt"
    /\ \E noMem \in BOOLEAN :
          LET r == esp_task_wdt_init(twdt, timeoutMs_, panicOnTimeout_, noMem)
          IN /\ twdt' = r.twdt
             /\ Logged(t, WdtCall("init", NoTask, r.err))
             /\ Goto(t, "init_set",
                     [op |-> "init", timeoutSeconds |-> frame[t].timeoutSeconds,
                      panicOnTimeout |-> frame[t].panicOnTimeout, err |-> r.err])
    /\ UNCHANGED << registry, taskListMutex_, tickCount >>

\* lines 25-37
init_set(t) ==
    /\ pc[t] = "init_set"
    /\ LET o == InitOutcome(frame[t].err)
       IN /\ initialized_' = (IF o.set THEN TRUE ELSE initialized_)
          /\ Done(t, frame[t], o.val, o.msg)
    /\ UNCHANGED << timeoutMs_, panicOnTimeout_, registeredTasks_,
                    taskListMutex_, twdt, tickCount, calls >>

(***************************************************************************)
(* bool Watchdog::deinit()                                                 *)
(***************************************************************************)
\* lines 41-43
deinit(t) ==
    /\ pc[t] = "idle"
    /\ IF ~initialized_
       THEN Done(t, [op |-> "deinit"], TRUE, "not initialized")
       ELSE Goto(t, "deinit_take", [op |-> "deinit"])
    /\ UNCHANGED << registry, taskListMutex_, twdt, tickCount, calls >>

\* line 46, portMAX_DELAY: waits until the mutex is free
deinit_take(t) ==
    /\ pc[t] = "deinit_take"
    /\ Take(t)
    /\ Goto(t, "deinit_locked", frame[t])
    /\ UNCHANGED << registry, twdt, tickCount, calls >>

\* the TWDT after esp_task_wdt_delete of the handles of entries i..Len
RECURSIVE DeleteAll(_, _, _)
DeleteAll(w, tasks, i) ==
    IF i > Len(tasks) THEN w
    ELSE DeleteAll(esp_task_wdt_delete(w, tasks[i].handle).twdt, tasks, i + 1)

\* the TWDT calls of that loop
RECURSIVE DeleteAllCalls(_, _, _)
DeleteAllCalls(w, tasks, i) ==
    IF i > Len(tasks) THEN << >>
    ELSE << WdtCall("delete", tasks[i].handle, esp_task_wdt_delete(w, tasks[i].handle).err) >>
         \o DeleteAllCalls(esp_task_wdt_delete(w, tasks[i].handle).twdt, tasks, i + 1)

\* deinit_locked that clears the list without esp_task_wdt_delete
deinit_locked_NoDelete(t) ==
    /\ pc[t] = "deinit_locked"
    /\ registeredTasks_' = << >>
    /\ Give(t)
    /\ Goto(t, "deinit_clear", frame[t])
    /\ UNCHANGED << initialized_, timeoutMs_, panicOnTimeout_, twdt, tickCount, calls >>

\* lines 47-51
deinit_locked(t) ==
    /\ pc[t] = "deinit_locked"
    /\ twdt' = DeleteAll(twdt, registeredTasks_, 1)
    /\ calls' = [calls EXCEPT ![t] = @ \o DeleteAllCalls(twdt, registeredTasks_, 1)]
    /\ registeredTasks_' = << >>
    /\ Give(t)
    /\ Goto(t, "deinit_clear", frame[t])
    /\ UNCHANGED << initialized_, timeoutMs_, panicOnTimeout_, tickCount >>

\* lines 56-58
deinit_clear(t) ==
    /\ pc[t] = "deinit_clear"
    /\ initialized_' = FALSE
    /\ Done(t, frame[t], TRUE, "deinitialized")
    /\ UNCHANGED << timeoutMs_, panicOnTimeout_, registeredTasks_,
                    taskListMutex_, twdt, tickCount, calls >>

(***************************************************************************)
(* bool Watchdog::registerCurrentTask(taskName, isCritical, feedIntervalMs)*)
(***************************************************************************)
\* registerCurrentTask without the check of initialized_
registerCurrentTask_Unchecked(t) ==
    /\ pc[t] = "idle"
    /\ \E a \in RegisterArgs :
          Goto(t, "register_wdt",
               [op |-> "registerCurrentTask", taskName |-> a[1],
                isCritical |-> a[2], feedIntervalMs |-> a[3]])
    /\ UNCHANGED << registry, taskListMutex_, twdt, tickCount, calls >>

\* lines 62-65; the caller is a task, so xTaskGetCurrentTaskHandle() is t
registerCurrentTask(t) ==
    /\ pc[t] = "idle"
    /\ \E a \in RegisterArgs :
          LET f == [op |-> "registerCurrentTask", taskName |-> a[1],
                    isCritical |-> a[2], feedIntervalMs |-> a[3]]
          IN IF ~initialized_
             THEN Done(t, f, FALSE, "not initialized")
             ELSE Goto(t, "register_wdt", f)
    /\ UNCHANGED << registry, taskListMutex_, twdt, tickCount, calls >>

\* register_wdt that calls esp_task_wdt_add whatever esp_task_wdt_status says
register_wdt_AlwaysAdds(t) ==
    /\ pc[t] = "register_wdt"
    /\ \E noMem \in BOOLEAN :
          LET r == esp_task_wdt_add(twdt, t, noMem)
          IN /\ twdt' = r.twdt
             /\ calls' = [calls EXCEPT ![t] =
                    @ \o << WdtCall("status", t, esp_task_wdt_status(twdt, t)),
                            WdtCall("add", t, r.err) >>]
             /\ IF r.err # ESP_OK
                THEN Done(t, frame[t], FALSE, "failed to add task")
                ELSE Goto(t, "register_take", frame[t])
    /\ UNCHANGED << registry, taskListMutex_, tickCount >>

\* register_wdt that goes on when esp_task_wdt_add fails
register_wdt_IgnoresAdd(t) ==
    /\ pc[t] = "register_wdt"
    /\ LET status == esp_task_wdt_status(twdt, t)
       IN IF status = ESP_OK
          THEN /\ Logged(t, WdtCall("status", t, status))
               /\ Goto(t, "register_take", frame[t])
               /\ UNCHANGED twdt
          ELSE IF status = ESP_ERR_NOT_FOUND
               THEN \E noMem \in BOOLEAN :
                       LET r == esp_task_wdt_add(twdt, t, noMem)
                       IN /\ twdt' = r.twdt
                          /\ calls' = [calls EXCEPT ![t] =
                                 @ \o << WdtCall("status", t, status),
                                         WdtCall("add", t, r.err) >>]
                          /\ Goto(t, "register_take", frame[t])
               ELSE /\ Logged(t, WdtCall("status", t, status))
                    /\ Done(t, frame[t], FALSE, "failed to check status")
                    /\ UNCHANGED twdt
    /\ UNCHANGED << registry, taskListMutex_, tickCount >>

\* lines 74-89: esp_task_wdt_status, then esp_task_wdt_add if not found
register_wdt(t) ==
    /\ pc[t] = "register_wdt"
    /\ LET status == esp_task_wdt_status(twdt, t)
       IN IF status = ESP_OK
          THEN /\ Logged(t, WdtCall("status", t, status))
               /\ Goto(t, "register_take", frame[t])
               /\ UNCHANGED twdt
          ELSE IF status = ESP_ERR_NOT_FOUND
               THEN \E noMem \in BOOLEAN :
                       LET r == esp_task_wdt_add(twdt, t, noMem)
                       IN /\ twdt' = r.twdt
                          /\ calls' = [calls EXCEPT ![t] =
                                 @ \o << WdtCall("status", t, status),
                                         WdtCall("add", t, r.err) >>]
                          /\ IF r.err # ESP_OK
                             THEN Done(t, frame[t], FALSE, "failed to add task")
                             ELSE Goto(t, "register_take", frame[t])
               ELSE /\ Logged(t, WdtCall("status", t, status))
                    /\ Done(t, frame[t], FALSE, "failed to check status")
                    /\ UNCHANGED twdt
    /\ UNCHANGED << registry, taskListMutex_, tickCount >>

\* line 92, portMAX_DELAY
register_take(t) ==
    /\ pc[t] = "register_take"
    /\ Take(t)
    /\ Goto(t, "register_locked", frame[t])
    /\ UNCHANGED << registry, twdt, tickCount, calls >>

\* register_locked that overwrites the entry of a task already registered
register_locked_Overwrites(t) ==
    /\ pc[t] = "register_locked"
    /\ LET new == NewTaskInfo(t, frame[t].taskName, tickCount,
                              frame[t].feedIntervalMs, frame[t].isCritical, timeoutMs_)
           i == findTaskByHandle(registeredTasks_, t)
       IN IF i # 0
          THEN /\ registeredTasks_' = [registeredTasks_ EXCEPT ![i] = new]
               /\ Done(t, frame[t], TRUE, "already registered")
          ELSE /\ registeredTasks_' = Append(registeredTasks_, new)
               /\ Goto(t, "register_reset", frame[t])
    /\ Give(t)
    /\ UNCHANGED << initialized_, timeoutMs_, panicOnTimeout_, twdt, tickCount, calls >>

\* register_locked that returns from the already-registered branch without
\* xSemaphoreGive
register_locked_KeepsLock(t) ==
    /\ pc[t] = "register_locked"
    /\ IF findTaskByHandle(registeredTasks_, t) # 0
       THEN /\ Done(t, frame[t], TRUE, "already registered")
            /\ UNCHANGED << registeredTasks_, taskListMutex_ >>
       ELSE /\ registeredTasks_' = Append(registeredTasks_,
                   NewTaskInfo(t, frame[t].taskName, tickCount,
                               frame[t].feedIntervalMs, frame[t].isCritical, timeoutMs_))
            /\ Goto(t, "register_reset", frame[t])
            /\ Give(t)
    /\ UNCHANGED << initialized_, timeoutMs_, panicOnTimeout_, twdt, tickCount, calls >>

\* lines 94-110
register_locked(t) ==
    /\ pc[t] = "register_locked"
    /\ IF findTaskByHandle(registeredTasks_, t) # 0
       THEN /\ Done(t, frame[t], TRUE, "already registered")
            /\ UNCHANGED registeredTasks_
       ELSE /\ registeredTasks_' = Append(registeredTasks_,
                   NewTaskInfo(t, frame[t].taskName, tickCount,
                               frame[t].feedIntervalMs, frame[t].isCritical, timeoutMs_))
            /\ Goto(t, "register_reset", frame[t])
    /\ Give(t)
    /\ UNCHANGED << initialized_, timeoutMs_, panicOnTimeout_, twdt, tickCount, calls >>

\* lines 113-117
register_reset(t) ==
    /\ pc[t] = "register_reset"
    /\ Logged(t, WdtCall("reset", t, esp_task_wdt_reset(twdt, t)))
    /\ Done(t, frame[t], TRUE, "registered")
    /\ UNCHANGED << registry, taskListMutex_, twdt, tickCount >>

(***************************************************************************)
(* bool Watchdog::unregisterCurrentTask()                                  *)
(* bool Watchdog::unregisterTaskByHandle(taskHandle, taskName)             *)
(***************************************************************************)
\* UnregisterEntry that fails when the TWDT does not know the task
UnregisterEntry_NotFoundFails(t, op, h, hint) ==
    LET f == [op |-> op, taskHandle |-> h, taskName |-> hint]
    IN IF h = NoTask
       THEN /\ Done(t, f, FALSE, "invalid task handle")
            /\ UNCHANGED << twdt, calls >>
       ELSE LET r == esp_task_wdt_delete(twdt, h)
            IN /\ twdt' = r.twdt
               /\ Logged(t, WdtCall("delete", h, r.err))
               /\ IF r.err # ESP_OK
                  THEN Done(t, f, FALSE, "failed to remove task")
                  ELSE Goto(t, "unregister_take", f)

\* UnregisterEntry that goes on whatever esp_task_wdt_delete answers
UnregisterEntry_IgnoresError(t, op, h, hint) ==
    LET f == [op |-> op, taskHandle |-> h, taskName |-> hint]
    IN IF h = NoTask
       THEN /\ Done(t, f, FALSE, "invalid task handle")
            /\ UNCHANGED << twdt, calls >>
       ELSE LET r == esp_task_wdt_delete(twdt, h)
            IN /\ twdt' = r.twdt
               /\ Logged(t, WdtCall("delete", h, r.err))
               /\ Goto(t, "unregister_take", f)

\* lines 133-143, for the handle h and the name hint
UnregisterEntry(t, op, h, hint) ==
    LET f == [op |-> op, taskHandle |-> h, taskName |-> hint]
    IN IF h = NoTask
       THEN /\ Done(t, f, FALSE, "invalid task handle")
            /\ UNCHANGED << twdt, calls >>
       ELSE LET r == esp_task_wdt_delete(twdt, h)
            IN /\ twdt' = r.twdt
               /\ Logged(t, WdtCall("delete", h, r.err))
               /\ IF r.err # ESP_OK /\ r.err # ESP_ERR_NOT_FOUND
                  THEN Done(t, f, FALSE, "failed to remove task")
                  ELSE Goto(t, "unregister_take", f)

\* lines 123-130
unregisterCurrentTask(t) ==
    /\ pc[t] = "idle"
    /\ UnregisterEntry(t, "unregisterCurrentTask", t, NullPtr)
    /\ UNCHANGED << registry, taskListMutex_, tickCount >>

unregisterTaskByHandle(t) ==
    /\ pc[t] = "idle"
    /\ \E a \in UnregisterArgs : UnregisterEntry(t, "unregisterTaskByHandle", a[1], a[2])
    /\ UNCHANGED << registry, taskListMutex_, tickCount >>

\* line 146, portMAX_DELAY
unregister_take(t) ==
    /\ pc[t] = "unregister_take"
    /\ Take(t)
    /\ Goto(t, "unregister_locked", frame[t])
    /\ UNCHANGED << registry, twdt, tickCount, calls >>

\* lines 147-164
unregister_locked(t) ==
    /\ pc[t] = "unregister_locked"
    /\ registeredTasks_' = RemoveHandle(registeredTasks_, frame[t].taskHandle)
    /\ Give(t)
    /\ Done(t, frame[t], TRUE,
            IF findTaskByHandle(registeredTasks_, frame[t].taskHandle) # 0
            THEN "unregistered"
            ELSE IF frame[t].taskName # NullPtr THEN "not found in registered list"
                 ELSE "none")
    /\ UNCHANGED << initialized_, timeoutMs_, panicOnTimeout_, twdt, tickCount, calls >>

(***************************************************************************)
(* bool Watchdog::feed()                                                   *)
(***************************************************************************)
\* line 174: the mutex is taken
feed(t) ==
    /\ pc[t] = "idle"
    /\ Take(t)
    /\ Goto(t, "feed_locked", [op |-> "feed"])
    /\ UNCHANGED << registry, twdt, tickCount, calls >>

\* feed_timeout that returns at once, without the TWDT part of feed
feed_timeout_Returns(t) ==
    /\ pc[t] = "idle"
    /\ TakeTimesOut(t)
    /\ Done(t, [op |-> "feed"], TRUE, "none")
    /\ UNCHANGED << registry, twdt, tickCount, calls >>

\* line 174: the wait of 10 ms ends without the mutex; lines 175-180 are skipped
feed_timeout(t) ==
    /\ pc[t] = "idle"
    /\ TakeTimesOut(t)
    /\ Goto(t, "feed_status", [op |-> "feed"])
    /\ UNCHANGED << registry, twdt, tickCount, calls >>

\* lines 175-180
feed_locked(t) ==
    /\ pc[t] = "feed_locked"
    /\ registeredTasks_' = FeedList(registeredTasks_, t, tickCount)
    /\ Give(t)
    /\ Goto(t, "feed_status", frame[t])
    /\ UNCHANGED << initialized_, timeoutMs_, panicOnTimeout_, twdt, tickCount, calls >>

\* lines 187-188 and, when the task is not subscribed, line 193
feed_status(t) ==
    /\ pc[t] = "feed_status"
    /\ Logged(t, WdtCall("status", t, esp_task_wdt_status(twdt, t)))
    /\ IF esp_task_wdt_status(twdt, t) = ESP_OK
       THEN Goto(t, "feed_reset", frame[t])
       ELSE Done(t, frame[t], TRUE, "none")
    /\ UNCHANGED << registry, taskListMutex_, twdt, tickCount >>

\* lines 190-193
feed_reset(t) ==
    /\ pc[t] = "feed_reset"
    /\ Logged(t, WdtCall("reset", t, esp_task_wdt_reset(twdt, t)))
    /\ Done(t, frame[t], TRUE, "none")
    /\ UNCHANGED << registry, taskListMutex_, twdt, tickCount >>

(***************************************************************************)
(* size_t Watchdog::getRegisteredTaskCount() const                         *)
(***************************************************************************)
\* line 198: the mutex is taken
getRegisteredTaskCount(t) ==
    /\ pc[t] = "idle"
    /\ Take(t)
    /\ Goto(t, "count_locked", [op |-> "getRegisteredTaskCount"])
    /\ UNCHANGED << registry, twdt, tickCount, calls >>

\* line 198: the wait ends without the mutex; count stays 0
count_timeout(t) ==
    /\ pc[t] = "idle"
    /\ TakeTimesOut(t)
    /\ Done(t, [op |-> "getRegisteredTaskCount"], 0, "none")
    /\ UNCHANGED << registry, twdt, tickCount, calls >>

\* lines 199-202
count_locked(t) ==
    /\ pc[t] = "count_locked"
    /\ Give(t)
    /\ Done(t, frame[t], Len(registeredTasks_), "none")
    /\ UNCHANGED << registry, twdt, tickCount, calls >>

(***************************************************************************)
(* bool Watchdog::getTaskInfo(const char* taskName, TaskInfo& info) const  *)
(***************************************************************************)
\* the result of getTaskInfo: the return value and what info holds after,
\* NoInfo standing for an info the call has not written
NoInfo == [handle |-> NoTask]
InfoResult(found, info) == [found |-> found, info |-> info]

\* lines 206-208: a null name, or the mutex is taken
getTaskInfo(t) ==
    /\ pc[t] = "idle"
    /\ \E n \in InfoArgs :
          LET f == [op |-> "getTaskInfo", taskName |-> n]
          IN IF n = NullPtr
             THEN /\ Done(t, f, InfoResult(FALSE, NoInfo), "none")
                  /\ UNCHANGED taskListMutex_
             ELSE /\ Take(t)
                  /\ Goto(t, "info_locked", f)
    /\ UNCHANGED << registry, twdt, tickCount, calls >>

\* line 208: the wait ends without the mutex
info_timeout(t) ==
    /\ pc[t] = "idle"
    /\ TakeTimesOut(t)
    /\ \E n \in InfoArgs \ {NullPtr} :
          Done(t, [op |-> "getTaskInfo", taskName |-> n],
               InfoResult(FALSE, NoInfo), "none")
    /\ UNCHANGED << registry, twdt, tickCount, calls >>

\* info_locked that also resets the counter of the entry it finds
info_locked_ResetsMissed(t) ==
    /\ pc[t] = "info_locked"
    /\ Give(t)
    /\ LET i == findTaskByName(registeredTasks_, frame[t].taskName)
       IN IF i # 0
          THEN /\ Done(t, frame[t], InfoResult(TRUE, registeredTasks_[i]), "none")
               /\ registeredTasks_' = [registeredTasks_ EXCEPT ![i].missedFeeds = U32(0)]
          ELSE /\ Done(t, frame[t], InfoResult(FALSE, NoInfo), "none")
               /\ UNCHANGED registeredTasks_
    /\ UNCHANGED << initialized_, timeoutMs_, panicOnTimeout_, twdt, tickCount, calls >>

\* lines 209-218
info_locked(t) ==
    /\ pc[t] = "info_locked"
    /\ Give(t)
    /\ LET i == findTaskByName(registeredTasks_, frame[t].taskName)
       IN IF i # 0
          THEN Done(t, frame[t], InfoResult(TRUE, registeredTasks_[i]), "none")
          ELSE Done(t, frame[t], InfoResult(FALSE, NoInfo), "none")
    /\ UNCHANGED << registry, twdt, tickCount, calls >>

(***************************************************************************)
(* size_t Watchdog::checkHealth()                                          *)
(***************************************************************************)
\* a scan may start while this holds of every missed-feed counter: it is
\* fewer than MaxMissed increments from zero
ScanAllowed(m) ==
    \/ U32Gt(U32(MaxMissed), m)
    \/ U32Gt(m, U32Sub(U32Max, U32(MaxMissed)))

\* lines 222-223
checkHealth(t) ==
    /\ pc[t] = "idle"
    /\ \A i \in 1..Len(registeredTasks_) : ScanAllowed(registeredTasks_[i].missedFeeds)
    /\ Goto(t, "check_take", [op |-> "checkHealth", now |-> tickCount])
    /\ UNCHANGED << registry, taskListMutex_, twdt, tickCount, calls >>

\* line 225: the mutex is taken
check_take(t) ==
    /\ pc[t] = "check_take"
    /\ Take(t)
    /\ Goto(t, "check_locked", frame[t])
    /\ UNCHANGED << registry, twdt, tickCount, calls >>

\* check_timeout that scans the list although it has not got the mutex
check_timeout_Scans(t) ==
    /\ pc[t] = "check_take"
    /\ TakeTimesOut(t)
    /\ registeredTasks_' = ScanList(registeredTasks_, frame[t].now)
    /\ Done(t, frame[t], UnhealthyCount(registeredTasks_, frame[t].now), "none")
    /\ UNCHANGED << initialized_, timeoutMs_, panicOnTimeout_, twdt, tickCount, calls >>

\* line 225: the wait ends without the mutex; lines 226-237 are skipped
check_timeout(t) ==
    /\ pc[t] = "check_take"
    /\ TakeTimesOut(t)
    /\ Done(t, frame[t], 0, "none")
    /\ UNCHANGED << registry, twdt, tickCount, calls >>

\* lines 226-240
check_locked(t) ==
    /\ pc[t] = "check_locked"
    /\ registeredTasks_' = ScanList(registeredTasks_, frame[t].now)
    /\ Give(t)
    /\ Done(t, frame[t], UnhealthyCount(registeredTasks_, frame[t].now),
            IF UnhealthyCount(registeredTasks_, frame[t].now) > 0
            THEN "hasn't fed watchdog" ELSE "none")
    /\ UNCHANGED << initialized_, timeoutMs_, panicOnTimeout_, twdt, tickCount, calls >>

(***************************************************************************)
(* The environment: the caller takes the result, and the tick interrupt.   *)
(***************************************************************************)
\* the caller of the finished call goes on
Return(t) ==
    /\ pc[t] = "done"
    /\ pc' = [pc EXCEPT ![t] = "idle"]
    /\ frame' = [frame EXCEPT ![t] = NoFrame]
    /\ ret' = [ret EXCEPT ![t] = NoRet]
    /\ calls' = [calls EXCEPT ![t] = << >>]
    /\ UNCHANGED << registry, taskListMutex_, twdt, tickCount >>

\* the tick interrupt
Tick ==
    /\ U32Gt(U32(MaxTick), tickCount)
    /\ tickCount' = U32Inc(tickCount)
    /\ UNCHANGED << registry, taskListMutex_, twdt, pc, frame, ret, calls >>

(***************************************************************************)
(* The state after construction: Watchdog(), lines 80-84 of Watchdog.h.    *)
(* The TWDT is either off, or was initialised by another component, which  *)
(* subscribed task 2 to it.                                                *)
(***************************************************************************)
OtherOwnerTwdt ==
    [inited |-> TRUE, timeout_ms |-> 5000, trigger_panic |-> TRUE, tasks |-> {2}]

Constructed ==
    /\ initialized_ = FALSE
    /\ timeoutMs_ = DEFAULT_TIMEOUT_MS
    /\ panicOnTimeout_ = TRUE
    /\ registeredTasks_ = << >>
    /\ taskListMutex_ = NoTask
    /\ pc = [t \in Tasks |-> "idle"]
    /\ frame = [t \in Tasks |-> NoFrame]
    /\ ret = [t \in Tasks |-> NoRet]
    /\ calls = [t \in Tasks |-> << >>]

Init ==
    /\ Constructed
    /\ twdt \in {TwdtOff, OtherOwnerTwdt}
    /\ tickCount = U32(0)

(***************************************************************************)
(* Calls made one at a time: a task starts or continues a call only while  *)
(* no other task is inside one, so the mutex is never contended.           *)
(***************************************************************************)
Quiet(t) == \A u \in Tasks \ {t} : pc[u] = "idle"

Next ==
    \/ \E t \in Tasks : Quiet(t) /\ init(t)
    \/ \E t \in Tasks : Quiet(t) /\ init_timeout(t)
    \/ \E t \in Tasks : Quiet(t) /\ init_panic(t)
    \/ \E t \in Tasks : Quiet(t) /\ init_wdt(t)
    \/ \E t \in Tasks : Quiet(t) /\ init_set(t)
    \/ \E t \in Tasks : Quiet(t) /\ deinit(t)
    \/ \E t \in Tasks : Quiet(t) /\ deinit_take(t)
    \/ \E t \in Tasks : Quiet(t) /\ deinit_locked(t)
    \/ \E t \in Tasks : Quiet(t) /\ deinit_clear(t)
    \/ \E t \in Tasks : Quiet(t) /\ registerCurrentTask(t)
    \/ \E t \in Tasks : Quiet(t) /\ register_wdt(t)
    \/ \E t \in Tasks : Quiet(t) /\ register_take(t)
    \/ \E t \in Tasks : Quiet(t) /\ register_locked(t)
    \/ \E t \in Tasks : Quiet(t) /\ register_reset(t)
    \/ \E t \in Tasks : Quiet(t) /\ unregisterCurrentTask(t)
    \/ \E t \in Tasks : Quiet(t) /\ unregisterTaskByHandle(t)
    \/ \E t \in Tasks : Quiet(t) /\ unregister_take(t)
    \/ \E t \in Tasks : Quiet(t) /\ unregister_locked(t)
    \/ \E t \in Tasks : Quiet(t) /\ feed(t)
    \/ \E t \in Tasks : Quiet(t) /\ feed_locked(t)
    \/ \E t \in Tasks : Quiet(t) /\ feed_status(t)
    \/ \E t \in Tasks : Quiet(t) /\ feed_reset(t)
    \/ \E t \in Tasks : Quiet(t) /\ getRegisteredTaskCount(t)
    \/ \E t \in Tasks : Quiet(t) /\ count_locked(t)
    \/ \E t \in Tasks : Quiet(t) /\ getTaskInfo(t)
    \/ \E t \in Tasks : Quiet(t) /\ info_locked(t)
    \/ \E t \in Tasks : Quiet(t) /\ checkHealth(t)
    \/ \E t \in Tasks : Quiet(t) /\ check_take(t)
    \/ \E t \in Tasks : Quiet(t) /\ check_locked(t)
    \/ \E t \in Tasks : Quiet(t) /\ Return(t)
    \/ Tick

Spec == Init /\ [][Next]_vars

(***************************************************************************)
(* A registry that has been running for a long time: task 1 registered     *)
(* with an interval of 1 ms at tick 0 and never fed, health scans have     *)
(* counted it almost 2^32 times, and the tick counter has just wrapped.    *)
(***************************************************************************)
LongRunEntry(missed) ==
    [handle |-> 1, name |-> NameA, lastFeedTime |-> U32(0),
     feedIntervalMs |-> U32(1), missedFeeds |-> missed, isCritical |-> TRUE]

InitLongRun ==
    /\ initialized_ = TRUE
    /\ timeoutMs_ = 1000
    /\ panicOnTimeout_ = FALSE
    /\ \E m \in {U32Sub(U32Max, U32(1)), U32Max} :
          registeredTasks_ = << LongRunEntry(m) >>
    /\ taskListMutex_ = NoTask
    /\ twdt = [inited |-> TRUE, timeout_ms |-> 1000, trigger_panic |-> FALSE, tasks |-> {1}]
    /\ tickCount = U32(0)
    /\ pc = [t \in Tasks |-> "idle"]
    /\ frame = [t \in Tasks |-> NoFrame]
    /\ ret = [t \in Tasks |-> NoRet]
    /\ calls = [t \in Tasks |-> << >>]

SpecLongRun == InitLongRun /\ [][Next]_vars

(***************************************************************************)
(* Preemptive scheduling: the tasks run their calls concurrently, and a    *)
(* step of one task may come between any two steps of another.  A wait     *)
(* with pdMS_TO_TICKS(10) may end without the mutex while another task     *)
(* holds it.  Taking the result of a finished call touches nothing the     *)
(* tasks share, so it is scheduled first.                                  *)
(***************************************************************************)
Running(t) == \A u \in Tasks \ {t} : pc[u] # "done"

(***************************************************************************)
(* Start-up and shutdown under preemption: the tasks initialise, register, *)
(* unregister and deinitialise concurrently, starting from a TWDT nobody   *)
(* has initialised.                                                        *)
(***************************************************************************)
InitConcurrent ==
    /\ Constructed
    /\ twdt = TwdtOff
    /\ tickCount = U32(0)

NextConcurrent ==
    \/ \E t \in Tasks : Running(t) /\ init(t)
    \/ \E t \in Tasks : Running(t) /\ init_timeout(t)
    \/ \E t \in Tasks : Running(t) /\ init_panic(t)
    \/ \E t \in Tasks : Running(t) /\ init_wdt(t)
    \/ \E t \in Tasks : Running(t) /\ init_set(t)
    \/ \E t \in Tasks : Running(t) /\ deinit(t)
    \/ \E t \in Tasks : Running(t) /\ deinit_take(t)
    \/ \E t \in Tasks : Running(t) /\ deinit_locked(t)
    \/ \E t \in Tasks : Running(t) /\ deinit_clear(t)
    \/ \E t \in Tasks : Running(t) /\ registerCurrentTask(t)
    \/ \E t \in Tasks : Running(t) /\ register_wdt(t)
    \/ \E t \in Tasks : Running(t) /\ register_take(t)
    \/ \E t \in Tasks : Running(t) /\ register_locked(t)
    \/ \E t \in Tasks : Running(t) /\ register_reset(t)
    \/ \E t \in Tasks : Running(t) /\ unregisterCurrentTask(t)
    \/ \E t \in Tasks : Running(t) /\ unregisterTaskByHandle(t)
    \/ \E t \in Tasks : Running(t) /\ unregister_take(t)
    \/ \E t \in Tasks : Running(t) /\ unregister_locked(t)
    \/ \E t \in Tasks : Return(t)

SpecConcurrent == InitConcurrent /\ [][NextConcurrent]_vars

(***************************************************************************)
(* Steady state under preemption: the long-running registry, with the      *)
(* tasks feeding, scanning, reading, unregistering and deinitialising      *)
(* concurrently while the clock advances.                                  *)
(***************************************************************************)
NextContended ==
    \/ \E t \in Tasks : Running(t) /\ deinit(t)
    \/ \E t \in Tasks : Running(t) /\ deinit_take(t)
    \/ \E t \in Tasks : Running(t) /\ deinit_locked(t)
    \/ \E t \in Tasks : Running(t) /\ deinit_clear(t)
    \/ \E t \in Tasks : Running(t) /\ unregisterCurrentTask(t)
    \/ \E t \in Tasks : Running(t) /\ unregisterTaskByHandle(t)
    \/ \E t \in Tasks : Running(t) /\ unregister_take(t)
    \/ \E t \in Tasks : Running(t) /\ unregister_locked(t)
    \/ \E t \in Tasks : Running(t) /\ feed(t)
    \/ \E t \in Tasks : Running(t) /\ feed_timeout(t)
    \/ \E t \in Tasks : Running(t) /\ feed_locked(t)
    \/ \E t \in Tasks : Running(t) /\ feed_status(t)
    \/ \E t \in Tasks : Running(t) /\ feed_reset(t)
    \/ \E t \in Tasks : Running(t) /\ getRegisteredTaskCount(t)
    \/ \E t \in Tasks : Running(t) /\ count_timeout(t)
    \/ \E t \in Tasks : Running(t) /\ count_locked(t)
    \/ \E t \in Tasks : Running(t) /\ getTaskInfo(t)
    \/ \E t \in Tasks : Running(t) /\ info_timeout(t)
    \/ \E t \in Tasks : Running(t) /\ info_locked(t)
    \/ \E t \in Tasks : Running(t) /\ checkHealth(t)
    \/ \E t \in Tasks : Running(t) /\ check_take(t)
    \/ \E t \in Tasks : Running(t) /\ check_timeout(t)
    \/ \E t \in Tasks : Running(t) /\ check_locked(t)
    \/ \E t \in Tasks : Return(t)
    \/ Tick

SpecContended == InitLongRun /\ [][NextContended]_vars

(***************************************************************************)
(* Steady state under preemption, with the scheduling the calls of feed    *)
(* and checkHealth can count on: a task inside feed or checkHealth gets    *)
(* the processor again, the tick interrupt ends a wait of                  *)
(* pdMS_TO_TICKS(10), and a caller takes the result of its call.  Nothing  *)
(* is assumed of a task inside another call: it may hold the mutex         *)
(* forever.                                                                *)
(***************************************************************************)
BoundedWaitSteps(t) ==
    \/ feed_locked(t)
    \/ feed_status(t)
    \/ feed_reset(t)
    \/ check_take(t)
    \/ check_timeout(t)
    \/ check_locked(t)

SpecContendedFair ==
    /\ InitLongRun
    /\ [][NextContended]_vars
    /\ \A t \in Tasks : WF_vars(BoundedWaitSteps(t))
    /\ \A t \in Tasks : WF_vars(Return(t))

(***************************************************************************)
(* The caller of getTaskInfo keeps the TaskInfo the call filled in: info   *)
(* is the caller's own object, assigned with TaskInfo::operator=, which    *)
(* copies every field and the bytes of the name.  The caller may write to  *)
(* it, and it keeps it while other calls run one after another.            *)
(***************************************************************************)
\* the caller writes to the fields of its TaskInfo
WriteInfo(t) ==
    /\ pc[t] = "done"
    /\ ret[t].op = "getTaskInfo"
    /\ ret[t].val.found
    /\ ret' = [ret EXCEPT ![t].val.info =
                  [@ EXCEPT !.name = << "X" >>, !.missedFeeds = U32(0),
                            !.lastFeedTime = tickCount]]
    /\ UNCHANGED << registry, taskListMutex_, twdt, tickCount, pc, frame, calls >>

\* no other task is inside a call; it may still hold the result of one
Settled(t) == \A u \in Tasks \ {t} : pc[u] \in {"idle", "done"}

NextSnapshot ==
    \/ \E t \in Tasks : Settled(t) /\ getTaskInfo(t)
    \/ \E t \in Tasks : Settled(t) /\ info_locked(t)
    \/ \E t \in Tasks : Settled(t) /\ feed(t)
    \/ \E t \in Tasks : Settled(t) /\ feed_locked(t)
    \/ \E t \in Tasks : Settled(t) /\ feed_status(t)
    \/ \E t \in Tasks : Settled(t) /\ feed_reset(t)
    \/ \E t \in Tasks : Settled(t) /\ checkHealth(t)
    \/ \E t \in Tasks : Settled(t) /\ check_take(t)
    \/ \E t \in Tasks : Settled(t) /\ check_locked(t)
    \/ \E t \in Tasks : Settled(t) /\ unregisterCurrentTask(t)
    \/ \E t \in Tasks : Settled(t) /\ unregisterTaskByHandle(t)
    \/ \E t \in Tasks : Settled(t) /\ unregister_take(t)
    \/ \E t \in Tasks : Settled(t) /\ unregister_locked(t)
    \/ \E t \in Tasks : Settled(t) /\ WriteInfo(t)
    \/ \E t \in Tasks : Return(t)
    \/ Tick

SpecSnapshot == InitLongRun /\ [][NextSnapshot]_vars

(***************************************************************************)
(* A task that feeds every other second: the registry after init(10,       *)
(* false) and, at tick 0, registerCurrentTask("A", true, 2000) by task 1.  *)
(* The calls run one after another, and between them the callers sleep     *)
(* until one of the moments of interest.                                   *)
(***************************************************************************)
ScenarioTicks == {1800, 2000, 4200, 5800, 5801}

InitScenario ==
    /\ initialized_ = TRUE
    /\ timeoutMs_ = 10 * 1000
    /\ panicOnTimeout_ = FALSE
    /\ registeredTasks_ = << NewTaskInfo(1, NameA, U32(0), U32(2000), TRUE, 10 * 1000) >>
    /\ taskListMutex_ = NoTask
    /\ twdt = [inited |-> TRUE, timeout_ms |-> 10 * 1000,
               trigger_panic |-> FALSE, tasks |-> {1}]
    /\ tickCount = U32(0)
    /\ pc = [t \in Tasks |-> "idle"]
    /\ frame = [t \in Tasks |-> NoFrame]
    /\ ret = [t \in Tasks |-> NoRet]
    /\ calls = [t \in Tasks |-> << >>]

\* vTaskDelay: the tick interrupts of a sleep, up to the next moment
Delay ==
    /\ \A t \in Tasks : pc[t] = "idle"
    /\ \E n \in ScenarioTicks :
          /\ n > NatOf(tickCount)
          /\ tickCount' = U32(n)
    /\ UNCHANGED << registry, taskListMutex_, twdt, pc, frame, ret, calls >>

NextScenario ==
    \/ \E t \in Tasks : Quiet(t) /\ feed(t)
    \/ \E t \in Tasks : Quiet(t) /\ feed_locked(t)
    \/ \E t \in Tasks : Quiet(t) /\ feed_status(t)
    \/ \E t \in Tasks : Quiet(t) /\ feed_reset(t)
    \/ \E t \in Tasks : Quiet(t) /\ checkHealth(t)
    \/ \E t \in Tasks : Quiet(t) /\ check_take(t)
    \/ \E t \in Tasks : Quiet(t) /\ check_locked(t)
    \/ \E t \in Tasks : Quiet(t) /\ Return(t)
    \/ Delay

SpecScenario == InitScenario /\ [][NextScenario]_vars

(***************************************************************************)
(* The TWDT is shared with the rest of the firmware: another component may *)
(* take it down with esp_task_wdt_deinit while the registry believes it is *)
(* armed.  The calls of the library run one after another.                 *)
(***************************************************************************)
OtherComponentDeinit ==
    /\ \A t \in Tasks : pc[t] = "idle"
    /\ esp_task_wdt_deinit(twdt).err = ESP_OK
    /\ twdt' = esp_task_wdt_deinit(twdt).twdt
    /\ UNCHANGED << registry, taskListMutex_, tickCount, pc, frame, ret, calls >>

NextAdapterFaults ==
    \/ \E t \in Tasks : Quiet(t) /\ init(t)
    \/ \E t \in Tasks : Quiet(t) /\ init_timeout(t)
    \/ \E t \in Tasks : Quiet(t) /\ init_panic(t)
    \/ \E t \in Tasks : Quiet(t) /\ init_wdt(t)
    \/ \E t \in Tasks : Quiet(t) /\ init_set(t)
    \/ \E t \in Tasks : Quiet(t) /\ registerCurrentTask(t)
    \/ \E t \in Tasks : Quiet(t) /\ register_wdt(t)
    \/ \E t \in Tasks : Quiet(t) /\ register_take(t)
    \/ \E t \in Tasks : Quiet(t) /\ register_locked(t)
    \/ \E t \in Tasks : Quiet(t) /\ register_reset(t)
    \/ \E t \in Tasks : Quiet(t) /\ unregisterCurrentTask(t)
    \/ \E t \in Tasks : Quiet(t) /\ unregisterTaskByHandle(t)
    \/ \E t \in Tasks : Quiet(t) /\ unregister_take(t)
    \/ \E t \in Tasks : Quiet(t) /\ unregister_locked(t)
    \/ \E t \in Tasks : Quiet(t) /\ Return(t)
    \/ OtherComponentDeinit

SpecAdapterFaults == Init /\ [][NextAdapterFaults]_vars

(***************************************************************************)
(* Registration and unregistration under preemption in a registry that is  *)
(* initialized, while another component may take the TWDT down.            *)
(***************************************************************************)
NextAdapterFaultsConcurrent ==
    \/ \E t \in Tasks : Running(t) /\ registerCurrentTask(t)
    \/ \E t \in Tasks : Running(t) /\ register_wdt(t)
    \/ \E t \in Tasks : Running(t) /\ register_take(t)
    \/ \E t \in Tasks : Running(t) /\ register_locked(t)
    \/ \E t \in Tasks : Running(t) /\ register_reset(t)
    \/ \E t \in Tasks : Running(t) /\ unregisterCurrentTask(t)
    \/ \E t \in Tasks : Running(t) /\ unregisterTaskByHandle(t)
    \/ \E t \in Tasks : Running(t) /\ unregister_take(t)
    \/ \E t \in Tasks : Running(t) /\ unregister_locked(t)
    \/ \E t \in Tasks : Return(t)
    \/ OtherComponentDeinit

SpecAdapterFaultsConcurrent == InitLongRun /\ [][NextAdapterFaultsConcurrent]_vars

(***************************************************************************)
(* Feed intervals over the whole range of uint32_t: task 1 has registered  *)
(* at tick 0 with one of the intervals below, and the tasks feed and scan  *)
(* one call at a time while the clock advances.                            *)
(***************************************************************************)
\* 1, 2^31 - 1, 2^31, 2^31 + 1 and 2^32 - 1
WideIntervals ==
    { U32(1), << Limb \div 2 - 1, Limb - 1 >>, << Limb \div 2, 0 >>,
      << Limb \div 2, 1 >>, U32Max }

InitWideIntervals ==
    /\ initialized_ = TRUE
    /\ timeoutMs_ = 1000
    /\ panicOnTimeout_ = FALSE
    /\ \E iv \in WideIntervals :
          registeredTasks_ = << NewTaskInfo(1, NameA, U32(0), iv, TRUE, 1000) >>
    /\ taskListMutex_ = NoTask
    /\ twdt = [inited |-> TRUE, timeout_ms |-> 1000, trigger_panic |-> FALSE, tasks |-> {1}]
    /\ tickCount = U32(0)
    /\ pc = [t \in Tasks |-> "idle"]
    /\ frame = [t \in Tasks |-> NoFrame]
    /\ ret = [t \in Tasks |-> NoRet]
    /\ calls = [t \in Tasks |-> << >>]

NextWideIntervals ==
    \/ \E t \in Tasks : Quiet(t) /\ feed(t)
    \/ \E t \in Tasks : Quiet(t) /\ feed_locked(t)
    \/ \E t \in Tasks : Quiet(t) /\ feed_status(t)
    \/ \E t \in Tasks : Quiet(t) /\ feed_reset(t)
    \/ \E t \in Tasks : Quiet(t) /\ checkHealth(t)
    \/ \E t \in Tasks : Quiet(t) /\ check_take(t)
    \/ \E t \in Tasks : Quiet(t) /\ check_locked(t)
    \/ \E t \in Tasks : Quiet(t) /\ Return(t)
    \/ Tick

SpecWideIntervals == InitWideIntervals /\ [][NextWideIntervals]_vars

(***************************************************************************)
(* Task names around the size of the name buffer: the tasks register       *)
(* under names of MAX_TASK_NAME_LEN - 1, MAX_TASK_NAME_LEN and             *)
(* MAX_TASK_NAME_LEN + 1 characters and look entries up by those names,    *)
(* one call at a time, in an initialized registry.                         *)
(***************************************************************************)
LongNames ==
    { [i \in 1..(MAX_TASK_NAME_LEN - 1) |-> "a"],
      [i \in 1..MAX_TASK_NAME_LEN |-> "b"],
      [i \in 1..(MAX_TASK_NAME_LEN + 1) |-> "c"] }

\* lines 62-72 of registerCurrentTask, for the names of LongNames
registerLongName(t) ==
    /\ pc[t] = "idle"
    /\ initialized_
    /\ \E n \in LongNames :
          Goto(t, "register_wdt",
               [op |-> "registerCurrentTask", taskName |-> n,
                isCritical |-> TRUE, feedIntervalMs |-> U32(1)])
    /\ UNCHANGED << registry, taskListMutex_, twdt, tickCount, calls >>

\* lines 206-208 of getTaskInfo, for the names of LongNames
getTaskInfoLongName(t) ==
    /\ pc[t] = "idle"
    /\ \E n \in LongNames :
          /\ Take(t)
          /\ Goto(t, "info_locked", [op |-> "getTaskInfo", taskName |-> n])
    /\ UNCHANGED << registry, twdt, tickCount, calls >>

\* the state after init(1, false) on a TWDT nobody had initialised
InitLongNames ==
    /\ initialized_ = TRUE
    /\ timeoutMs_ = 1000
    /\ panicOnTimeout_ = FALSE
    /\ registeredTasks_ = << >>
    /\ taskListMutex_ = NoTask
    /\ twdt = [inited |-> TRUE, timeout_ms |-> 1000, trigger_panic |-> FALSE, tasks |-> {}]
    /\ tickCount = U32(0)
    /\ pc = [t \in Tasks |-> "idle"]
    /\ frame = [t \in Tasks |-> NoFrame]
    /\ ret = [t \in Tasks |-> NoRet]
    /\ calls = [t \in Tasks |-> << >>]

NextLongNames ==
    \/ \E t \in Tasks : Quiet(t) /\ registerLongName(t)
    \/ \E t \in Tasks : Quiet(t) /\ register_wdt(t)
    \/ \E t \in Tasks : Quiet(t) /\ register_take(t)
    \/ \E t \in Tasks : Quiet(t) /\ register_locked(t)
    \/ \E t \in Tasks : Quiet(t) /\ register_reset(t)
    \/ \E t \in Tasks : Quiet(t) /\ unregisterCurrentTask(t)
    \/ \E t \in Tasks : Quiet(t) /\ unregister_take(t)
    \/ \E t \in Tasks : Quiet(t) /\ unregister_locked(t)
    \/ \E t \in Tasks : Quiet(t) /\ getTaskInfoLongName(t)
    \/ \E t \in Tasks : Quiet(t) /\ info_locked(t)
    \/ \E t \in Tasks : Quiet(t) /\ Return(t)

SpecLongNames == InitLongNames /\ [][NextLongNames]_vars

(***************************************************************************)
(* Vocabulary of the properties.                                           *)
(***************************************************************************)
\* this step is task t calling op
CallStep(t, op) == pc[t] = "idle" /\ pc'[t] # "idle" /\ frame'[t].op = op

\* this step is task t leaving label l
StepOf(t, l) == pc[t] = l /\ pc'[t] # l

\* this step is any step of a call of op by task t
StepIn(t, op) ==
    \/ CallStep(t, op)
    \/ (frame[t].op = op /\ pc[t] \notin {"idle", "done"} /\ pc'[t] # pc[t])

\* task t has just returned from op
Returned(t, op) == pc[t] = "done" /\ ret[t].op = op

\* entry e is stale at tick now: more than two intervals have gone by
\* since its last feed, in exact arithmetic
Stale(e, now) ==
    (NatOf(now) - NatOf(e.lastFeedTime)) * portTICK_PERIOD_MS > 2 * NatOf(e.feedIntervalMs)

Entries == 1..Len(registeredTasks_)

(***************************************************************************)
(* C1: registerCurrentTask called while initialized_ is false returns      *)
(* false at once: it adds no entry and calls nothing of the TWDT.          *)
(***************************************************************************)
C1_RegisterRequiresInit ==
    [][\A t \in Tasks :
          (CallStep(t, "registerCurrentTask") /\ ~initialized_) =>
             /\ pc'[t] = "done"
             /\ ret'[t].val = FALSE
             /\ registeredTasks_' = registeredTasks_
             /\ twdt' = twdt
             /\ calls'[t] = << >>]_vars

C1_Witness ==
    \E t \in Tasks :
       /\ Returned(t, "registerCurrentTask")
       /\ ret[t].val = FALSE
       /\ ~initialized_
       /\ registeredTasks_ = << >>
       /\ calls[t] = << >>

(***************************************************************************)
(* C2: while the registry is initialized, an init call with any arguments, *)
(* valid or out of range, returns true and changes neither timeoutMs_,     *)
(* panicOnTimeout_, initialized_, the entries nor the TWDT.                *)
(***************************************************************************)
C2_InitIdempotent ==
    [][\A t \in Tasks :
          (CallStep(t, "init") /\ initialized_) =>
             /\ pc'[t] = "done"
             /\ ret'[t].val = TRUE
             /\ UNCHANGED registry
             /\ twdt' = twdt
             /\ calls'[t] = << >>]_vars

\* a second init(2, TRUE) has returned true and the timeout is still the
\* 1000 ms of the first
C2_Witness ==
    \E t \in Tasks :
       /\ Returned(t, "init")
       /\ ret[t].val = TRUE
       /\ frame[t].timeoutSeconds = 2
       /\ initialized_
       /\ timeoutMs_ = 1000
       /\ panicOnTimeout_ = FALSE
       /\ calls[t] = << >>
       /\ registeredTasks_ # << >>

(***************************************************************************)
(* C3: on a registry that is not initialized, init with timeoutSeconds = 0 *)
(* or timeoutSeconds > 3600 returns false with no side effect: the         *)
(* registry is unchanged, initialized_ stays false, the TWDT is not armed. *)
(***************************************************************************)
C3_InvalidTimeoutRejected ==
    [][\A t \in Tasks :
          ( /\ CallStep(t, "init")
            /\ ~initialized_
            /\ (frame'[t].timeoutSeconds = 0 \/ frame'[t].timeoutSeconds > 3600) ) =>
             /\ pc'[t] = "done"
             /\ ret'[t].val = FALSE
             /\ ~initialized_'
             /\ UNCHANGED registry
             /\ twdt' = twdt
             /\ calls'[t] = << >>]_vars

C3_Witness ==
    \E t \in Tasks :
       /\ Returned(t, "init")
       /\ ret[t].val = FALSE
       /\ frame[t].timeoutSeconds = 3601
       /\ ~initialized_
       /\ timeoutMs_ = DEFAULT_TIMEOUT_MS
       /\ twdt = TwdtOff
       /\ calls[t] = << >>

(***************************************************************************)
(* C4: an init call on a registry that is not initialized, with a valid    *)
(* timeout, arms the TWDT, and the answer decides the result: ESP_OK or    *)
(* ESP_ERR_INVALID_STATE (armed by another owner) gives true with          *)
(* initialized_ true, any other error gives false with initialized_ false. *)
(***************************************************************************)
C4_InitFollowsArm ==
    \A t \in Tasks :
       Returned(t, "init") =>
          IF calls[t] = << >>
          THEN \/ ret[t].msg = "already initialized"
               \/ frame[t].timeoutSeconds = 0
               \/ frame[t].timeoutSeconds > 3600
          ELSE /\ Len(calls[t]) = 1
               /\ calls[t][1].fn = "init"
               /\ IF calls[t][1].err \in {ESP_OK, ESP_ERR_INVALID_STATE}
                  THEN ret[t].val = TRUE /\ initialized_
                  ELSE ret[t].val = FALSE /\ ~initialized_

\* the TWDT was armed by another owner and init has returned true
C4_Witness ==
    \E t \in Tasks :
       /\ Returned(t, "init")
       /\ calls[t] = << WdtCall("init", NoTask, ESP_ERR_INVALID_STATE) >>
       /\ ret[t].val = TRUE
       /\ initialized_
       /\ twdt = OtherOwnerTwdt

(***************************************************************************)
(* C5: feed stamps the caller's entry with the current tick; a health scan *)
(* counts every entry whose last feed lies more than two intervals before  *)
(* the tick the scan sampled, and does not count an entry fed at that very *)
(* tick (a scan run immediately after the feed).                           *)
(***************************************************************************)
C5_FeedResetsStaleness ==
    [][\A t \in Tasks :
          /\ StepOf(t, "feed_locked") =>
                \A i \in Entries :
                   registeredTasks_[i].handle = t =>
                      registeredTasks_'[i].lastFeedTime = tickCount
          /\ StepOf(t, "check_locked") =>
                \A i \in Entries :
                   LET e == registeredTasks_[i]
                       counted == registeredTasks_'[i].missedFeeds # e.missedFeeds
                   IN /\ Stale(e, frame[t].now) => (counted /\ ret'[t].val >= 1)
                      /\ e.lastFeedTime = frame[t].now =>
                            (~counted /\ ret'[t].val < Len(registeredTasks_))]_vars

\* both tasks registered at tick 0 with an interval of 1 ms; at tick 3 task
\* 1 has fed and task 2 has not; the scan that has just returned counted
\* task 2, for the second time, and not task 1
C5_Witness ==
    \E t \in Tasks :
       /\ Returned(t, "checkHealth")
       /\ frame[t].now = U32(3)
       /\ ret[t].val = 1
       /\ Len(registeredTasks_) = 2
       /\ registeredTasks_[1].feedIntervalMs = U32(1)
       /\ registeredTasks_[1].lastFeedTime = U32(3)
       /\ registeredTasks_[1].missedFeeds = U32(0)
       /\ registeredTasks_[2].feedIntervalMs = U32(1)
       /\ registeredTasks_[2].lastFeedTime = U32(0)
       /\ registeredTasks_[2].missedFeeds = U32(2)

(***************************************************************************)
(* C6: the value checkHealth returns after its locked section is the       *)
(* number of entries whose elapsed time is strictly greater than twice     *)
(* their feedIntervalMs; an entry at exactly twice is not counted.         *)
(***************************************************************************)
C6_CountsStrictlyStale ==
    [][\A t \in Tasks :
          StepOf(t, "check_locked") =>
             /\ pc'[t] = "done"
             /\ ret'[t].val =
                   Cardinality({i \in Entries : Stale(registeredTasks_[i], frame[t].now)})]_vars

\* a scan has returned 0 with an entry whose elapsed time is exactly twice
\* its interval
C6_Witness ==
    \E t \in Tasks :
       /\ Returned(t, "checkHealth")
       /\ ret[t].val = 0
       /\ \E i \in Entries :
             /\ NatOf(registeredTasks_[i].feedIntervalMs) = 1
             /\ NatOf(frame[t].now) - NatOf(registeredTasks_[i].lastFeedTime) = 2

(***************************************************************************)
(* C7: a health scan adds exactly 1 to missedFeeds of every entry it finds *)
(* stale and leaves the counter of the others alone; feed sets the         *)
(* caller's counter to 0.                                                  *)
(***************************************************************************)
C7_MissedFeedsCount ==
    [][\A t \in Tasks :
          /\ StepOf(t, "check_locked") =>
                /\ Len(registeredTasks_') = Len(registeredTasks_)
                /\ \A i \in Entries :
                      NatOf(registeredTasks_'[i].missedFeeds) =
                         NatOf(registeredTasks_[i].missedFeeds)
                         + (IF Stale(registeredTasks_[i], frame[t].now) THEN 1 ELSE 0)
          /\ StepOf(t, "feed_locked") =>
                \A i \in Entries :
                   registeredTasks_[i].handle = t =>
                      registeredTasks_'[i].missedFeeds = U32(0)]_vars

\* three scans in a row have counted an entry that was never fed
C7_Witness ==
    \E t \in Tasks :
       /\ Returned(t, "checkHealth")
       /\ ret[t].val = 1
       /\ \E i \in Entries :
             /\ registeredTasks_[i].missedFeeds = U32(3)
             /\ registeredTasks_[i].lastFeedTime = U32(0)

(***************************************************************************)
(* C8: missedFeeds saturates: a scan that finds an entry stale whose       *)
(* counter is at the maximum of uint32_t leaves it at the maximum.         *)
(***************************************************************************)
C8_MissedFeedsSaturate ==
    [][\A t \in Tasks :
          StepOf(t, "check_locked") =>
             \A i \in Entries :
                ( /\ registeredTasks_[i].missedFeeds = U32Max
                  /\ Stale(registeredTasks_[i], frame[t].now) ) =>
                   registeredTasks_'[i].missedFeeds = U32Max]_vars

C10_NewNameAddsEntry ==
    [][\A t \in Tasks :
          ( /\ StepOf(t, "register_locked")
            /\ findTaskByName(registeredTasks_, frame[t].taskName) = 0 ) =>
             Len(registeredTasks_') = Len(registeredTasks_) + 1]_vars

(***************************************************************************)
(* C11: in every state, whatever the interleaving of the calls of the      *)
(* tasks, no two entries of the list have the same task handle.            *)
(***************************************************************************)
C11_OneEntryPerHandle ==
    \A i, j \in Entries :
       registeredTasks_[i].handle = registeredTasks_[j].handle => i = j

\* both tasks have an entry; task 1 is registering once more and waits for
\* the mutex while task 2, inside unregisterTaskByHandle, holds it
C11_Witness ==
    /\ Len(registeredTasks_) = 2
    /\ pc[1] = "register_take"
    /\ pc[2] = "unregister_locked"
    /\ taskListMutex_ = 2

(***************************************************************************)
(* C12: every step of a feed call by a task that has no entry leaves the   *)
(* list as it is, so no entry is made and the count stays the same, and    *)
(* the call returns true.                                                  *)
(***************************************************************************)
C12_FeedWithoutEntry ==
    [][\A t \in Tasks :
          ( /\ StepIn(t, "feed")
            /\ findTaskByHandle(registeredTasks_, t) = 0 ) =>
             /\ registeredTasks_' = registeredTasks_
             /\ pc'[t] = "done" => ret'[t].val = TRUE]_vars

\* feed has returned true to a task that has no entry and no subscription
\* to the TWDT, while the registry is initialized and the other task has
\* its entry
C12_Witness ==
    \E t \in Tasks :
       /\ Returned(t, "feed")
       /\ ret[t].val = TRUE
       /\ initialized_
       /\ twdt.timeout_ms = timeoutMs_
       /\ t \notin twdt.tasks
       /\ findTaskByHandle(registeredTasks_, t) = 0
       /\ Len(registeredTasks_) = 1

(***************************************************************************)
(* C13: unregisterTaskByHandle called by a task for the handle of another  *)
(* task returns true, and after it no entry has the handle and the TWDT    *)
(* has no subscription of it; the entries of other handles stay, so with   *)
(* no entry for the handle the list is unchanged.                          *)
(***************************************************************************)
C13_UnregisterAlwaysSucceeds ==
    [][\A t \in Tasks :
          ( /\ StepIn(t, "unregisterTaskByHandle")
            /\ frame'[t].taskHandle \in Tasks \ {t} ) =>
             LET h == frame'[t].taskHandle
             IN /\ SelectSeq(registeredTasks_', LAMBDA e : e.handle # h)
                      = SelectSeq(registeredTasks_, LAMBDA e : e.handle # h)
                /\ findTaskByHandle(registeredTasks_, h) = 0
                      => registeredTasks_' = registeredTasks_
                /\ pc'[t] = "done" =>
                      /\ ret'[t].val = TRUE
                      /\ findTaskByHandle(registeredTasks_', h) = 0
                      /\ h \notin twdt'.tasks]_vars

(***************************************************************************)
(* C13, amended: the same holds when the TWDT has been initialised, so     *)
(* that esp_task_wdt_delete answers ESP_OK or ESP_ERR_NOT_FOUND; when the  *)
(* TWDT has not been initialised the call returns false and changes        *)
(* neither the list nor the TWDT.                                          *)
(***************************************************************************)
C13_UnregisterByOther ==
    [][\A t \in Tasks :
          ( /\ StepIn(t, "unregisterTaskByHandle")
            /\ frame'[t].taskHandle \in Tasks \ {t} ) =>
             LET h == frame'[t].taskHandle
             IN /\ SelectSeq(registeredTasks_', LAMBDA e : e.handle # h)
                      = SelectSeq(registeredTasks_, LAMBDA e : e.handle # h)
                /\ findTaskByHandle(registeredTasks_, h) = 0
                      => registeredTasks_' = registeredTasks_
                /\ pc'[t] = "done" =>
                      /\ ret'[t].val = twdt.inited
                      /\ ret'[t].val = TRUE =>
                            /\ findTaskByHandle(registeredTasks_', h) = 0
                            /\ h \notin twdt'.tasks
                      /\ ret'[t].val = FALSE =>
                            /\ registeredTasks_' = registeredTasks_
                            /\ twdt' = twdt]_vars

\* a task has unregistered the other one: the TWDT had its subscription and
\* the list had its entry, and the list is now empty
C13_Witness ==
    \E t \in Tasks :
       /\ Returned(t, "unregisterTaskByHandle")
       /\ frame[t].taskHandle \in Tasks \ {t}
       /\ ret[t].val = TRUE
       /\ ret[t].msg = "unregistered"
       /\ calls[t] = << WdtCall("delete", frame[t].taskHandle, ESP_OK) >>
       /\ registeredTasks_ = << >>

(***************************************************************************)
(* C14: deinit called while initialized_ is false returns true and changes *)
(* nothing.  Otherwise its locked section calls esp_task_wdt_delete once   *)
(* for the handle of every entry and empties the list, and when the call   *)
(* returns, true, the list is empty, so that the count is 0 and no name is *)
(* found, and initialized_ is false.                                       *)
(***************************************************************************)
C14_DeinitClears ==
    [][\A t \in Tasks :
          /\ ( CallStep(t, "deinit") /\ ~initialized_ ) =>
                /\ pc'[t] = "done"
                /\ ret'[t].val = TRUE
                /\ UNCHANGED << registry, twdt, taskListMutex_, calls >>
          /\ StepOf(t, "deinit_locked") =>
                /\ Len(calls'[t]) = Len(registeredTasks_)
                /\ \A i \in Entries :
                      /\ calls'[t][i].fn = "delete"
                      /\ calls'[t][i].handle = registeredTasks_[i].handle
                /\ \A i \in Entries : registeredTasks_[i].handle \notin twdt'.tasks
                /\ registeredTasks_' = << >>
          /\ StepOf(t, "deinit_clear") =>
                /\ pc'[t] = "done"
                /\ ret'[t].val = TRUE
                /\ initialized_' = FALSE
                /\ Len(registeredTasks_') = 0
                /\ \A n \in InfoArgs : findTaskByName(registeredTasks_', n) = 0]_vars

\* deinit has returned after its loop unsubscribed the two tasks that had
\* an entry
C14_Witness ==
    \E t \in Tasks :
       /\ Returned(t, "deinit")
       /\ ret[t].msg = "deinitialized"
       /\ Len(calls[t]) = 2
       /\ \A i \in 1..2 : calls[t][i].err = ESP_OK
       /\ twdt.tasks = {}
       /\ registeredTasks_ = << >>
       /\ ~initialized_

(***************************************************************************)
(* C15: init called with a valid timeout while initialized_ is false, as   *)
(* it is after deinit, is not refused; when the TWDT is still armed and    *)
(* esp_task_wdt_init answers ESP_ERR_INVALID_STATE, the call returns true  *)
(* with initialized_ true and timeoutMs_ the new timeout in milliseconds.  *)
(* This holds in every cycle of init and deinit.                           *)
(***************************************************************************)
C15_ReinitAfterDeinit ==
    [][\A t \in Tasks :
          /\ ( /\ CallStep(t, "init")
               /\ ~initialized_
               /\ TimeoutValid(frame'[t].timeoutSeconds) ) =>
                pc'[t] = "init_timeout"
          /\ ( StepOf(t, "init_set") /\ frame[t].err = ESP_ERR_INVALID_STATE ) =>
                /\ pc'[t] = "done"
                /\ ret'[t].val = TRUE
                /\ initialized_' = TRUE
                /\ timeoutMs_' = frame[t].timeoutSeconds * 1000]_vars

\* init has returned true in a later cycle: the TWDT was armed by an
\* earlier cycle of the library, with the other timeout, and answered
\* ESP_ERR_INVALID_STATE
C15_Witness ==
    \E t \in Tasks :
       /\ Returned(t, "init")
       /\ ret[t].val = TRUE
       /\ calls[t] = << WdtCall("init", NoTask, ESP_ERR_INVALID_STATE) >>
       /\ initialized_
       /\ twdt.timeout_ms \in {1000, 2000}
       /\ timeoutMs_ = frame[t].timeoutSeconds * 1000
       /\ timeoutMs_ # twdt.timeout_ms

(***************************************************************************)
(* C16: every step of a task that changes initialized_, timeoutMs_,        *)
(* panicOnTimeout_ or the list of entries is taken while that task holds   *)
(* taskListMutex_.                                                         *)
(***************************************************************************)
C16_WritesUnderMutex ==
    [][\A t \in Tasks :
          ( /\ pc[t] # "done"
            /\ pc'[t] # pc[t]
            /\ registry' # registry ) =>
             taskListMutex_ = t]_vars

\* some task is inside a call of deinit
DeinitRunning == \E t \in Tasks : frame[t].op = "deinit" /\ pc[t] # "done"

(***************************************************************************)
(* C17: while initialized_ is true, that is from the moment an init call   *)
(* has succeeded, and no deinit call is running, no step changes           *)
(* timeoutMs_, whatever the interleaving of the calls of the tasks.        *)
(***************************************************************************)
C17_TimeoutStableOnceInitialized ==
    [][( initialized_ /\ ~DeinitRunning ) => timeoutMs_' = timeoutMs_]_vars

(***************************************************************************)
(* C18: whenever a task calls esp_task_wdt_reset, in feed or at the end of *)
(* registerCurrentTask, the TWDT has a subscription of that task at that   *)
(* moment, whatever the interleaving of the calls of the tasks.            *)
(***************************************************************************)
C18_PingOnlyWhenSubscribed ==
    [][\A t \in Tasks :
          ( StepOf(t, "feed_reset") \/ StepOf(t, "register_reset") ) =>
             esp_task_wdt_status(twdt, t) = ESP_OK]_vars

(***************************************************************************)
(* C19: a feed call that starts while another task holds the mutex, and    *)
(* gives up the wait, changes no entry and goes on to the TWDT part: it    *)
(* asks esp_task_wdt_status, calls esp_task_wdt_reset when the answer is   *)
(* ESP_OK, and returns true; these steps change no entry either.           *)
(***************************************************************************)
C19_FeedLockTimeout ==
    [][\A t \in Tasks :
          /\ ( CallStep(t, "feed") /\ taskListMutex_ # NoTask ) =>
                /\ pc'[t] = "feed_status"
                /\ UNCHANGED << registry, taskListMutex_ >>
          /\ StepOf(t, "feed_status") =>
                /\ UNCHANGED registry
                /\ pc'[t] = (IF esp_task_wdt_status(twdt, t) = ESP_OK
                             THEN "feed_reset" ELSE "done")
                /\ pc'[t] = "done" => ret'[t].val = TRUE
          /\ StepOf(t, "feed_reset") =>
                /\ UNCHANGED registry
                /\ calls'[t][Len(calls'[t])].fn = "reset"
                /\ pc'[t] = "done"
                /\ ret'[t].val = TRUE]_vars

\* feed has returned true after the ping, and the caller's entry is as it
\* was before the call: last fed at tick 0, three ticks ago, and with the
\* missed feeds counted before; the other task still holds the mutex
C19_Witness ==
    \E t \in Tasks :
       /\ Returned(t, "feed")
       /\ ret[t].val = TRUE
       /\ calls[t] = << WdtCall("status", t, ESP_OK), WdtCall("reset", t, ESP_OK) >>
       /\ taskListMutex_ \in Tasks \ {t}
       /\ findTaskByHandle(registeredTasks_, t) # 0
       /\ registeredTasks_[findTaskByHandle(registeredTasks_, t)].lastFeedTime = U32(0)
       /\ registeredTasks_[findTaskByHandle(registeredTasks_, t)].missedFeeds
             = U32Sub(U32Max, U32(1))
       /\ tickCount = U32(3)

(***************************************************************************)
(* C20: a checkHealth call that reaches xSemaphoreTake while another task  *)
(* holds the mutex, and gives up the wait, returns 0 and changes no entry, *)
(* stale or not.                                                           *)
(***************************************************************************)
C20_CheckLockTimeout ==
    [][\A t \in Tasks :
          ( StepOf(t, "check_take") /\ taskListMutex_ # NoTask ) =>
             /\ pc'[t] = "done"
             /\ ret'[t].val = 0
             /\ UNCHANGED << registry, taskListMutex_ >>]_vars

\* checkHealth has returned 0 while the other task holds the mutex, although
\* an entry is stale at the tick the call sampled; the entry's counter is
\* what it was before the call
C20_Witness ==
    \E t \in Tasks :
       /\ Returned(t, "checkHealth")
       /\ ret[t].val = 0
       /\ taskListMutex_ \in Tasks \ {t}
       /\ Len(registeredTasks_) = 1
       /\ Stale(registeredTasks_[1], frame[t].now)
       /\ IsUnhealthy(registeredTasks_[1], frame[t].now)
       /\ registeredTasks_[1].missedFeeds = U32Sub(U32Max, U32(1))

(***************************************************************************)
(* C21: a task inside feed or checkHealth eventually returns from it, even *)
(* when another task holds the mutex and never gives it back.              *)
(***************************************************************************)
C21_BoundedWaitReturns ==
    \A t \in Tasks :
       (pc[t] \in {"feed_locked", "feed_status", "feed_reset",
                   "check_take", "check_locked"}) ~> (pc[t] = "done")

\* checkHealth has returned to a task while the other task, inside deinit,
\* holds the mutex
C21_Witness ==
    \E t \in Tasks : \E u \in Tasks \ {t} :
       /\ Returned(t, "checkHealth")
       /\ pc[u] = "deinit_locked"
       /\ taskListMutex_ = u

(***************************************************************************)
(* C22: no step of getTaskInfo changes the registry or the TWDT, and a     *)
(* found entry is returned field by field as it is in the list.  The       *)
(* TaskInfo the caller holds afterwards is its own: a later step that      *)
(* changes the registry does not change it, and a write of the caller to   *)
(* it does not change the registry.                                        *)
(***************************************************************************)
C22_LookupReturnsCopy ==
    [][\A t \in Tasks :
          /\ StepIn(t, "getTaskInfo") =>
                /\ UNCHANGED << registry, twdt >>
                /\ ( pc'[t] = "done" /\ ret'[t].val.found ) =>
                      /\ findTaskByName(registeredTasks_, frame'[t].taskName) # 0
                      /\ ret'[t].val.info =
                            registeredTasks_[findTaskByName(registeredTasks_,
                                                            frame'[t].taskName)]
          /\ ( /\ Returned(t, "getTaskInfo")
               /\ pc'[t] = "done"
               /\ registry' # registry ) =>
                ret'[t] = ret[t]
          /\ ( /\ Returned(t, "getTaskInfo")
               /\ pc'[t] = "done"
               /\ ret'[t] # ret[t] ) =>
                UNCHANGED << registry, twdt >>]_vars

\* a task holds the TaskInfo of the entry named A and wrote to it at tick
\* 1; the owner of the entry fed at tick 2: the entry has its name and the
\* new time stamp, the caller's TaskInfo has what the caller wrote
C22_Witness ==
    \E t \in Tasks :
       /\ Returned(t, "getTaskInfo")
       /\ ret[t].val.found
       /\ ret[t].val.info.name = << "X" >>
       /\ ret[t].val.info.lastFeedTime = U32(1)
       /\ Len(registeredTasks_) = 1
       /\ registeredTasks_[1].handle = ret[t].val.info.handle
       /\ registeredTasks_[1].name = NameA
       /\ registeredTasks_[1].lastFeedTime = U32(2)

(***************************************************************************)
(* C23: getRegisteredTaskCount returns the length of the list at the       *)
(* moment it returns, also when it is called while another task holds the  *)
(* mutex.                                                                  *)
(***************************************************************************)
C23_CountIsListLength ==
    [][\A t \in Tasks :
          ( /\ StepIn(t, "getRegisteredTaskCount")
            /\ pc'[t] = "done" ) =>
             ret'[t].val = Len(registeredTasks_)]_vars

(***************************************************************************)
(* C24: in every state every entry has feedIntervalMs > 0; the step of     *)
(* registerCurrentTask that makes an entry stores the interval passed when *)
(* it is not 0, and a fifth of timeoutMs_ at that moment when it is 0.     *)
(***************************************************************************)
C24_IntervalPositive ==
    /\ [](\A i \in Entries : U32Gt(registeredTasks_[i].feedIntervalMs, U32(0)))
    /\ [][\A t \in Tasks :
             ( StepOf(t, "register_locked") /\ pc'[t] = "register_reset" ) =>
                LET e == registeredTasks_'[Len(registeredTasks_')]
                IN /\ e.handle = t
                   /\ e.feedIntervalMs =
                         (IF frame[t].feedIntervalMs = U32(0)
                          THEN U32(timeoutMs_ \div 5)
                          ELSE frame[t].feedIntervalMs)]_vars

\* a registration that passed 0 has returned, with a timeout of 2000 ms in
\* force: the entry has an interval of 400 ms
C24_Witness ==
    \E t \in Tasks :
       /\ Returned(t, "registerCurrentTask")
       /\ ret[t].msg = "registered"
       /\ frame[t].feedIntervalMs = U32(0)
       /\ timeoutMs_ = 2000
       /\ findTaskByHandle(registeredTasks_, t) # 0
       /\ registeredTasks_[findTaskByHandle(registeredTasks_, t)].feedIntervalMs = U32(400)

\* the number of calls of fn in a log of TWDT calls
CountCalls(log, fn) == Cardinality({i \in 1..Len(log) : log[i].fn = fn})

(***************************************************************************)
(* C25: the step of registerCurrentTask that makes an entry gives it the   *)
(* current tick as lastFeedTime and 0 missed feeds, so that a health scan  *)
(* at that tick counts what it counted without the entry; the call then    *)
(* calls esp_task_wdt_reset once, as the caller, and returns true.         *)
(***************************************************************************)
C25_RegistrationFeedsOnce ==
    [][\A t \in Tasks :
          /\ ( StepOf(t, "register_locked") /\ pc'[t] = "register_reset" ) =>
                LET e == registeredTasks_'[Len(registeredTasks_')]
                IN /\ Len(registeredTasks_') = Len(registeredTasks_) + 1
                   /\ e.handle = t
                   /\ e.lastFeedTime = tickCount
                   /\ e.missedFeeds = U32(0)
                   /\ ~IsUnhealthy(e, tickCount)
                   /\ ~Stale(e, tickCount)
                   /\ UnhealthyCount(registeredTasks_', tickCount)
                         = UnhealthyCount(registeredTasks_, tickCount)
          /\ StepOf(t, "register_reset") =>
                /\ pc'[t] = "done"
                /\ ret'[t].val = TRUE
                /\ CountCalls(calls'[t], "reset") = 1
                /\ calls'[t][Len(calls'[t])] = WdtCall("reset", t, ESP_OK)
                /\ UNCHANGED registry]_vars

\* a registration with an interval of 1 ms has returned at tick 3: the entry
\* carries tick 3, and the call added the task to the TWDT and pinged once
C25_Witness ==
    \E t \in Tasks :
       /\ Returned(t, "registerCurrentTask")
       /\ ret[t].msg = "registered"
       /\ tickCount = U32(3)
       /\ CountCalls(calls[t], "add") = 1
       /\ CountCalls(calls[t], "reset") = 1
       /\ findTaskByHandle(registeredTasks_, t) # 0
       /\ registeredTasks_[findTaskByHandle(registeredTasks_, t)].lastFeedTime = U32(3)
       /\ registeredTasks_[findTaskByHandle(registeredTasks_, t)].feedIntervalMs = U32(1)

(***************************************************************************)
(* C26: registerCurrentTask by a task the TWDT already has a subscription  *)
(* of, and that has no entry, does not call esp_task_wdt_add and leaves    *)
(* the TWDT as it is, appends an entry for the task and returns true.      *)
(***************************************************************************)
C26_MergesExistingSubscription ==
    [][\A t \in Tasks :
          /\ ( StepOf(t, "register_wdt") /\ esp_task_wdt_status(twdt, t) = ESP_OK ) =>
                /\ pc'[t] = "register_take"
                /\ twdt' = twdt
                /\ calls'[t] = << WdtCall("status", t, ESP_OK) >>
          /\ ( /\ StepOf(t, "register_locked")
               /\ calls[t] = << WdtCall("status", t, ESP_OK) >>
               /\ findTaskByHandle(registeredTasks_, t) = 0 ) =>
                /\ pc'[t] = "register_reset"
                /\ registeredTasks_' # registeredTasks_
                /\ SubSeq(registeredTasks_', 1, Len(registeredTasks_)) = registeredTasks_
                /\ findTaskByHandle(registeredTasks_', t) = Len(registeredTasks_) + 1
          /\ ( /\ StepOf(t, "register_reset")
               /\ calls[t] = << WdtCall("status", t, ESP_OK) >> ) =>
                /\ pc'[t] = "done"
                /\ ret'[t].val = TRUE
                /\ CountCalls(calls'[t], "add") = 0
                /\ twdt' = twdt]_vars

\* task 2, which another component had subscribed to the TWDT, has
\* registered: the call asked for the status and pinged, and the entry is
\* there
C26_Witness ==
    \E t \in Tasks :
       /\ Returned(t, "registerCurrentTask")
       /\ ret[t].msg = "registered"
       /\ calls[t] = << WdtCall("status", t, ESP_OK), WdtCall("reset", t, ESP_OK) >>
       /\ twdt = OtherOwnerTwdt
       /\ Len(registeredTasks_) = 1
       /\ registeredTasks_[1].handle = t

(***************************************************************************)
(* C27: no step makes the lastFeedTime of an entry smaller: for a task     *)
(* that has an entry before and after the step, the time stamp after is at *)
(* least the time stamp before.                                            *)
(***************************************************************************)
C27_LastFeedTimeMonotonic ==
    [][\A h \in Tasks :
          ( /\ findTaskByHandle(registeredTasks_, h) # 0
            /\ findTaskByHandle(registeredTasks_', h) # 0 ) =>
             NatOf(registeredTasks_'[findTaskByHandle(registeredTasks_', h)].lastFeedTime)
                >= NatOf(registeredTasks_[findTaskByHandle(registeredTasks_, h)].lastFeedTime)]_vars

\* a task registered at tick 1 has fed at tick 3, after a health scan
\* counted it once; the entry of the other task still carries tick 0
C27_Witness ==
    \E t \in Tasks :
       /\ Returned(t, "feed")
       /\ tickCount = U32(3)
       /\ Len(registeredTasks_) = 2
       /\ registeredTasks_[findTaskByHandle(registeredTasks_, t)].lastFeedTime = U32(3)
       /\ \E u \in Tasks \ {t} :
             /\ findTaskByHandle(registeredTasks_, u) # 0
             /\ registeredTasks_[findTaskByHandle(registeredTasks_, u)].lastFeedTime = U32(0)
             /\ registeredTasks_[findTaskByHandle(registeredTasks_, u)].missedFeeds = U32(1)

\* an entry, and a list, as they are in the run that passed the opposite
\* isCritical to every registerCurrentTask
FlipCritical(e) == [e EXCEPT !.isCritical = ~@]
FlipAll(tasks) ==
    IF tasks = << >> THEN << >>
    ELSE [i \in 1..Len(tasks) |-> FlipCritical(tasks[i])]

EntryA == registeredTasks_[findTaskByHandle(registeredTasks_, 1)]

(***************************************************************************)
(* C29: in the scenario, with the last feed of A at tick 1800, a health    *)
(* scan at tick 2000 returns 0, and a health scan at tick 4200 returns 1   *)
(* and takes the missed feeds of A from 0 to 1.                            *)
(***************************************************************************)
C29_ScenarioStaleAt4200 ==
    [][\A t \in Tasks :
          ( /\ StepOf(t, "check_locked")
            /\ EntryA.lastFeedTime = U32(1800)
            /\ EntryA.missedFeeds = U32(0) ) =>
             /\ frame[t].now = U32(2000) => ret'[t].val = 0
             /\ frame[t].now = U32(4200) =>
                   /\ ret'[t].val = 1
                   /\ EntryA'.missedFeeds = U32(1)]_vars

(***************************************************************************)
(* C29, amended: with the last feed of A at tick 1800, the health scans at *)
(* ticks 2000 and 4200 return 0 and leave the missed feeds of A at 0: 2400 *)
(* ms is not more than twice the interval of 2000 ms.  So does a scan at   *)
(* tick 5800; a scan at tick 5801 returns 1 and takes the missed feeds of  *)
(* A from 0 to 1.                                                          *)
(***************************************************************************)
C29_ScenarioStaleAfter5800 ==
    [][\A t \in Tasks :
          ( /\ StepOf(t, "check_locked")
            /\ EntryA.lastFeedTime = U32(1800)
            /\ EntryA.missedFeeds = U32(0) ) =>
             /\ frame[t].now \in {U32(2000), U32(4200), U32(5800)} =>
                   /\ ret'[t].val = 0
                   /\ EntryA'.missedFeeds = U32(0)
             /\ frame[t].now = U32(5801) =>
                   /\ ret'[t].val = 1
                   /\ EntryA'.missedFeeds = U32(1)]_vars

\* the scan at tick 5801 has returned 1: A was last fed at tick 1800 and
\* has one missed feed
C29_Witness ==
    \E t \in Tasks :
       /\ Returned(t, "checkHealth")
       /\ frame[t].now = U32(5801)
       /\ ret[t].val = 1
       /\ EntryA.lastFeedTime = U32(1800)
       /\ EntryA.feedIntervalMs = U32(2000)
       /\ EntryA.missedFeeds = U32(1)
       /\ timeoutMs_ = 10000


(***************************************************************************)
(* C30: when esp_task_wdt_status answers neither ESP_OK nor                *)
(* ESP_ERR_NOT_FOUND, or esp_task_wdt_add fails, registerCurrentTask       *)
(* returns false on that step, the mutex is never taken and                *)
(* registeredTasks_ is unchanged.                                          *)
(***************************************************************************)
C30_AdapterFailureFailsRegister ==
    [][\A t \in Tasks :
          ( /\ StepOf(t, "register_wdt")
            /\ LET last == calls'[t][Len(calls'[t])]
               IN \/ last.fn = "status" /\ last.err \notin {ESP_OK, ESP_ERR_NOT_FOUND}
                  \/ last.fn = "add" /\ last.err # ESP_OK ) =>
             /\ pc'[t] = "done"
             /\ ret'[t].op = "registerCurrentTask"
             /\ ret'[t].val = FALSE
             /\ registeredTasks_' = registeredTasks_
             /\ taskListMutex_' = taskListMutex_
             /\ findTaskByHandle(registeredTasks_', t) = findTaskByHandle(registeredTasks_, t)]_vars

\* the registry is initialized, the TWDT has been taken down under it, and
\* registerCurrentTask has returned false after the one status call
C30_Witness ==
    \E t \in Tasks :
       /\ Returned(t, "registerCurrentTask")
       /\ initialized_
       /\ ret[t].val = FALSE
       /\ ret[t].msg = "failed to check status"
       /\ calls[t] = << WdtCall("status", t, ESP_ERR_INVALID_STATE) >>
       /\ findTaskByHandle(registeredTasks_, t) = 0

\* esp_task_wdt_add has failed and registerCurrentTask has returned false,
\* while the entry of another task stays in the list
C30_AddFailed ==
    \E t \in Tasks :
       /\ Returned(t, "registerCurrentTask")
       /\ ret[t].val = FALSE
       /\ ret[t].msg = "failed to add task"
       /\ calls[t] = << WdtCall("status", t, ESP_ERR_NOT_FOUND),
                        WdtCall("add", t, ESP_ERR_NO_MEM) >>
       /\ findTaskByHandle(registeredTasks_, t) = 0
       /\ Len(registeredTasks_) = 1


(***************************************************************************)
(* C31: when esp_task_wdt_delete fails with an error other than            *)
(* ESP_ERR_NOT_FOUND, unregisterTaskByHandle returns false on that step    *)
(* and registeredTasks_ is unchanged, so the entry of the handle stays;    *)
(* when it answers ESP_ERR_NOT_FOUND the call goes on to take the mutex,   *)
(* and its locked step leaves no entry of the handle and returns true.     *)
(***************************************************************************)
C31_DeleteErrorKeepsEntry ==
    [][\A t \in Tasks :
          /\ ( /\ pc[t] = "idle"
               /\ pc'[t] # "idle"
               /\ frame'[t].op \in {"unregisterCurrentTask", "unregisterTaskByHandle"}
               /\ frame'[t].taskHandle # NoTask ) =>
                LET err == esp_task_wdt_delete(twdt, frame'[t].taskHandle).err
                IN /\ calls'[t] = << WdtCall("delete", frame'[t].taskHandle, err) >>
                   /\ (err \notin {ESP_OK, ESP_ERR_NOT_FOUND}) =>
                         /\ pc'[t] = "done"
                         /\ ret'[t].val = FALSE
                         /\ registeredTasks_' = registeredTasks_
                   /\ (err = ESP_ERR_NOT_FOUND) =>
                         /\ pc'[t] = "unregister_take"
                         /\ registeredTasks_' = registeredTasks_
          /\ ( /\ StepOf(t, "unregister_locked")
               /\ calls[t] = << WdtCall("delete", frame[t].taskHandle, ESP_ERR_NOT_FOUND) >> ) =>
                /\ pc'[t] = "done"
                /\ ret'[t].val = TRUE
                /\ findTaskByHandle(registeredTasks_', frame[t].taskHandle) = 0
                /\ registeredTasks_' = RemoveHandle(registeredTasks_, frame[t].taskHandle)]_vars

\* unregisterCurrentTask has returned false after esp_task_wdt_delete
\* answered ESP_ERR_INVALID_STATE, and the entry of the caller is still in
\* the initialized registry
C31_Witness ==
    \E t \in Tasks :
       /\ Returned(t, "unregisterCurrentTask")
       /\ initialized_
       /\ ret[t].val = FALSE
       /\ calls[t] = << WdtCall("delete", t, ESP_ERR_INVALID_STATE) >>
       /\ findTaskByHandle(registeredTasks_, t) # 0

\* esp_task_wdt_delete answered ESP_ERR_NOT_FOUND for a handle that had an
\* entry; the call has returned true and the entry is gone
C31_NotFoundRemoves ==
    \E t \in Tasks :
       /\ Returned(t, "unregisterCurrentTask")
       /\ ret[t].val = TRUE
       /\ ret[t].msg = "unregistered"
       /\ calls[t] = << WdtCall("delete", t, ESP_ERR_NOT_FOUND) >>
       /\ findTaskByHandle(registeredTasks_, t) = 0


(***************************************************************************)
(* C32: no step of checkHealth adds or removes an entry, changes the       *)
(* handle, name, lastFeedTime, feedIntervalMs or isCritical of an entry,   *)
(* changes the missedFeeds of an entry that is not stale at the tick the   *)
(* call sampled, or changes initialized_, timeoutMs_ or panicOnTimeout_;   *)
(* the call makes no TWDT call and leaves the TWDT as it was.              *)
(***************************************************************************)
C32_CheckHealthOnlyCounts ==
    [][\A t \in Tasks :
          StepIn(t, "checkHealth") =>
             LET now == IF pc[t] = "idle" THEN tickCount ELSE frame[t].now
             IN /\ Len(registeredTasks_') = Len(registeredTasks_)
                /\ \A i \in Entries :
                      /\ registeredTasks_'[i].handle = registeredTasks_[i].handle
                      /\ registeredTasks_'[i].name = registeredTasks_[i].name
                      /\ registeredTasks_'[i].lastFeedTime = registeredTasks_[i].lastFeedTime
                      /\ registeredTasks_'[i].feedIntervalMs = registeredTasks_[i].feedIntervalMs
                      /\ registeredTasks_'[i].isCritical = registeredTasks_[i].isCritical
                      /\ ~Stale(registeredTasks_[i], now) =>
                            registeredTasks_'[i].missedFeeds = registeredTasks_[i].missedFeeds
                /\ UNCHANGED << initialized_, timeoutMs_, panicOnTimeout_, twdt >>
                /\ calls'[t] = << >>]_vars


(***************************************************************************)
(* C33: a step of feed called by task t changes nothing of the registry    *)
(* but lastFeedTime and missedFeeds of the entry of t: the list keeps its  *)
(* length, every entry of another handle is unchanged, the entry of t      *)
(* keeps its handle, name, feedIntervalMs and isCritical, and              *)
(* initialized_, timeoutMs_ and panicOnTimeout_ are unchanged.             *)
(***************************************************************************)
C33_FeedTouchesOwnEntryOnly ==
    [][\A t \in Tasks :
          StepIn(t, "feed") =>
             /\ Len(registeredTasks_') = Len(registeredTasks_)
             /\ \A i \in Entries :
                   IF registeredTasks_[i].handle = t
                   THEN /\ registeredTasks_'[i].handle = registeredTasks_[i].handle
                        /\ registeredTasks_'[i].name = registeredTasks_[i].name
                        /\ registeredTasks_'[i].feedIntervalMs = registeredTasks_[i].feedIntervalMs
                        /\ registeredTasks_'[i].isCritical = registeredTasks_[i].isCritical
                   ELSE registeredTasks_'[i] = registeredTasks_[i]
             /\ UNCHANGED << initialized_, timeoutMs_, panicOnTimeout_ >>]_vars

\* feed by task t has returned after stamping the entry of t with a tick
\* later than 0, and the list holds the entry of another task, registered
\* at tick 0 and still stamped with it
C33_Witness ==
    \E t \in Tasks :
       /\ Returned(t, "feed")
       /\ Len(registeredTasks_) = 2
       /\ tickCount # U32(0)
       /\ \E i, j \in Entries :
             /\ registeredTasks_[i].handle = t
             /\ registeredTasks_[i].lastFeedTime = tickCount
             /\ registeredTasks_[j].handle # t
             /\ registeredTasks_[j].lastFeedTime = U32(0)


\* the positions of a task between xSemaphoreTake and xSemaphoreGive
LockedLabels ==
    {"deinit_locked", "register_locked", "unregister_locked", "feed_locked",
     "count_locked", "info_locked", "check_locked"}

C35_FreshEntryNotCounted ==
    [][\A t \in Tasks :
          StepOf(t, "check_locked") =>
             /\ \A i \in Entries :
                   ~Stale(registeredTasks_[i], tickCount) =>
                      registeredTasks_'[i].missedFeeds = registeredTasks_[i].missedFeeds
             /\ ret'[t].val <=
                   Cardinality({i \in Entries : Stale(registeredTasks_[i], tickCount)})]_vars


(***************************************************************************)
(* C36: whenever no task is inside a call of the registry and              *)
(* initialized_ is false, registeredTasks_ is empty.                       *)
(***************************************************************************)
C36_UninitializedIsEmpty ==
    ( /\ \A t \in Tasks : pc[t] \in {"idle", "done"}
      /\ ~initialized_ ) => registeredTasks_ = << >>


(***************************************************************************)
(* C37: whenever no task is inside a call of the registry, every handle    *)
(* that has an entry in registeredTasks_ is subscribed to the TWDT (the    *)
(* TWDT being changed by the calls of the library only).                   *)
(***************************************************************************)
C37_EntriesAreSubscribed ==
    ( \A t \in Tasks : pc[t] \in {"idle", "done"} ) =>
       \A i \in Entries : registeredTasks_[i].handle \in twdt.tasks


\* entry e is stale at tick now, for every interval of uint32_t: the
\* elapsed milliseconds and twice the interval are compared as numbers of
\* 33 bits and more, high part first
StaleExact(e, now) ==
    LET el == U32Sub(now, e.lastFeedTime)
        msLo == el[2] * portTICK_PERIOD_MS
        msHi == el[1] * portTICK_PERIOD_MS + (msLo \div Limb)
        ivLo == e.feedIntervalMs[2] * 2
        ivHi == e.feedIntervalMs[1] * 2 + (ivLo \div Limb)
    IN \/ msHi > ivHi
       \/ msHi = ivHi /\ msLo % Limb > ivLo % Limb

(***************************************************************************)
(* C38: for every feedIntervalMs of uint32_t, the locked step of           *)
(* checkHealth increments missedFeeds only of entries whose elapsed time   *)
(* exceeds 2 * feedIntervalMs in exact arithmetic, and returns no more     *)
(* than the number of those entries.                                       *)
(***************************************************************************)
C38_NoEarlyStaleness ==
    [][\A t \in Tasks :
          StepOf(t, "check_locked") =>
             /\ \A i \in Entries :
                   registeredTasks_'[i].missedFeeds # registeredTasks_[i].missedFeeds =>
                      StaleExact(registeredTasks_[i], frame[t].now)
             /\ ret'[t].val <=
                   Cardinality({i \in Entries : StaleExact(registeredTasks_[i], frame[t].now)})]_vars


(***************************************************************************)
(* C39: when the list holds exactly one entry whose name was stored from   *)
(* the name getTaskInfo is called with, getTaskInfo finds that entry, for  *)
(* names shorter than, as long as and longer than MAX_TASK_NAME_LEN.       *)
(***************************************************************************)
C39_LookupFindsRegisteredName ==
    [][\A t \in Tasks :
          ( /\ StepOf(t, "info_locked")
            /\ Cardinality({i \in Entries :
                  registeredTasks_[i].name =
                     Strncpy(frame[t].taskName, MAX_TASK_NAME_LEN - 1)}) = 1 ) =>
             /\ ret'[t].val.found
             /\ ret'[t].val.info.name = Strncpy(frame[t].taskName, MAX_TASK_NAME_LEN - 1)]_vars


(***************************************************************************)
(* C40: whenever initialized_ is true, timeoutMs_ is the timeout the TWDT  *)
(* has been initialised with.                                              *)
(***************************************************************************)
C40_TimeoutMatchesTwdt ==
    initialized_ => (twdt.inited /\ timeoutMs_ = twdt.timeout_ms)

=============================================================================
